---- MODULE Spec2Model ----
(***************************************************************************)
(* Model of the trajectory aggregation pipeline of                         *)
(* HPOBenchExperimentUtils/tabular_evals.py.                               *)
(*                                                                         *)
(*   Spec       df_per_optimizer (the Normalizer), one iteration of its    *)
(*              loop over the run files per step.                          *)
(*   SpecTable  save_median_table_tabular for one benchmark and one        *)
(*              optimizer: the settings are read, the runs normalized, and *)
(*              every seed's series is truncated at the budget (append the *)
(*              synthetic row, sort, drop, tail) into result_df.           *)
(*   SpecTrunc  the truncation step as a function of one seed's series:    *)
(*              applied once, applied to its own result, and applied at a  *)
(*              second threshold.                                          *)
(*   SpecAgg    the benchmark loop of tabular_evals.py up to the rank and  *)
(*              the expanded table.                                        *)
(*   SpecCorr   plot_correlation of stats_generation.py.                   *)
(*   SpecReport plot_fidels, plot_overhead and plot_ecdf.                  *)
(*   SpecOptions load_dragonfly_options; SpecTraj generate_trajectory;     *)
(*              SpecCwd, SpecCwdFair change_cwd of dragonfly_utils.py.     *)
(*   SpecCmd    write_cmd of scripts/create_cmd.py.                        *)
(*   SpecBohb   BOHBOptimizer.run of bohb_optimizer.py.                    *)
(*                                                                         *)
(* Numbers: raw values, times and fidelity levels are small integers; the  *)
(* result of Python's true division is kept exactly, as a reduced fraction *)
(* <<num, den>> with den > 0; np.inf is the pair <<1, 0>>.  Every real     *)
(* record has total_time_used >= 1: an evaluation takes time.              *)
(***************************************************************************)
EXTENDS Integers, Sequences, FiniteSets, TLC

\* ------------------------------------------------------------------ bounds
\* runs (json files) of one optimizer
MaxRuns == 2
\* non-header records over all runs of one optimizer
MaxRecords == 2
\* largest total_time_used of a record; also the benchmark's time_limit_in_s
MaxTime == 3
\* thresh ranges over k / ThreshSteps, k in 1..ThreshSteps, a grid on (0, 1]
ThreshSteps == 2

VARIABLES
    \* df_per_optimizer: arguments
    key, unvalidated_trajectories, y_best, y_max,
    \* df_per_optimizer: locals
    dataframe, id, pc, exc,
    \* df_per_optimizer: returned DataFrame (optimizer_df of the caller)
    optimizer_df,
    \* save_median_table_tabular: arguments and benchmark settings
    benchmark_spec, unvalidated, thresh, time_limit_in_s,
    \* save_median_table_tabular: locals of the loops over optimizers and seeds
    cut_time_step, tpc, unique_ids, unique_id, df, last_inc, result_df, printed,
    \* the truncation step applied to one seed's series: once, to its own result,
    \* and at a second threshold
    series, thresh1, thresh2, once, twice, wider, done,
    \* save_median_table_tabular(_expanded): the loops over benchmarks and
    \* optimizers and the statistics over per_dataset_df
    expand, benchmarks, benchmark, is_dir, keys, opt_list, opts, per_dataset_df,
    function_values_median, rank_df, best_opt, result_df_complete, row_i,
    \* plot_correlation: the directory, the run histories on disk, the loop over
    \* the optimizers, the index of configurations and the correlation table
    corr_dir, opt_rh_dc, opt_i, rhs, conf_dc, f_set, cors, cpc,
    \* plot_fidels, plot_overhead, plot_ecdf: the reporter called and the DataFrames it built
    reporter, stat_dc, marker_per_opt,
    \* load_dragonfly_options: the settings, the locals, the functions called and the error message
    hpoexp_settings, type, partial_options, options, called, message, opc,
    \* create_cmd.py: the loop of main over the four command lists, and write_cmd's locals and the files it wrote
    cmd_pair, cmd_c, cmd_list, out_fl, ct, fhs, wpc,
    \* generate_trajectory: the history, the loop over the queries, and the files written
    query_qinfos, q_i, incumbent, update, gen_trajectories, save_history, recorded_history, saved, gpc,
    \* change_cwd: the argument of the outer call, the frames of the recursion, the calls of mkdir and of chdir
    tries, frames, attempts, chdirs, xpc,
    \* BOHBOptimizer.run: the settings, the calls made on the name server, the worker and the master, the iterations of the master, the result and the returned directory
    optimizer_settings, events, iterations, result, returned, bpc

normVars == <<key, unvalidated_trajectories, y_best, y_max, dataframe, id, pc, exc,
              optimizer_df>>

tableVars == <<benchmark_spec, unvalidated, thresh, time_limit_in_s, cut_time_step, tpc,
               unique_ids, unique_id, df, last_inc, result_df, printed>>

truncVars == <<series, thresh1, thresh2, once, twice, wider, done>>

aggVars == <<expand, benchmarks, benchmark, is_dir, keys, opt_list, opts, per_dataset_df,
             function_values_median, rank_df, best_opt, result_df_complete, row_i>>

corrVars == <<corr_dir, opt_rh_dc, opt_i, rhs, conf_dc, f_set, cors, cpc>>

reportVars == <<reporter, stat_dc, marker_per_opt>>

optionVars == <<hpoexp_settings, type, partial_options, options, called, message, opc>>

cmdVars == <<cmd_pair, cmd_c, cmd_list, out_fl, ct, fhs, wpc>>

trajVars == <<query_qinfos, q_i, incumbent, update, gen_trajectories, save_history, recorded_history, saved, gpc>>

cwdVars == <<tries, frames, attempts, chdirs, xpc>>

bohbVars == <<optimizer_settings, events, iterations, result, returned, bpc>>

vars == <<normVars, tableVars, truncVars, aggVars, corrVars, reportVars, optionVars, cmdVars, trajVars, cwdVars, bohbVars>>

\* ------------------------------------------------------------ numbers
None == <<>>
Some(v) == <<v>>

Abs(x) == IF x < 0 THEN -x ELSE x

RECURSIVE Gcd(_, _)
Gcd(a, b) == IF b = 0 THEN a ELSE Gcd(b, a % b)

\* Python's n / d for d # 0, exactly: the reduced fraction with den > 0
TrueDiv(n, d) ==
    LET g == Gcd(Abs(n), Abs(d))
        s == IF d < 0 THEN -1 ELSE 1
    IN  <<(s * n) \div g, (s * d) \div g>>

\* np.inf
Inf == <<1, 0>>

\* an int as a fraction
Num(n) == <<n, 1>>

\* ------------------------------------------------------------ input records
\* names of fidelity dimensions, in the order they may appear in a mapping
FidelityNames == <<"budget", "subsample">>
FidelLevels == {1, 2}
FunctionValues == {0, 2}

\* a fidelity mapping is the sequence of its (name, level) items in dict order
SingleFidelity == {<< <<FidelityNames[1], l>> >> : l \in FidelLevels}
MalformedFidelity ==
    {<<>>} \cup
    {<< <<FidelityNames[1], l1>>, <<FidelityNames[2], l2>> >> :
        <<l1, l2>> \in {p \in FidelLevels \X FidelLevels : p[1] # p[2]}}

\* one trajectory record; the counters other than the ones drawn follow the time
Record(fv, t, fid) ==
    [function_value |-> fv, total_time_used |-> t, total_objective_costs |-> t,
     cost |-> 1, start_time |-> t - 1, finish_time |-> t, fidelity |-> fid]

\* the record at index 0 of a run file: a marker, never an evaluation
Header == Record(0, 0, << <<FidelityNames[1], 0>> >>)

\* ------------------------------------------------------------ df_per_optimizer
Columns == {"optimizer", "id", "total_time_used", "total_objective_costs",
            "function_values", "fidel_values", "costs", "start_time", "finish_time"}

EmptyColumns == [c \in Columns |-> <<>>]

\* mutant: the range is taken from 0 instead of from y_best
NormalizerNoShift(yb, ym) == IF ym = None THEN 1 ELSE ym[1]

\* normalizer = 1 if y_max is None else y_max - y_best
Normalizer(yb, ym) == IF ym = None THEN 1 ELSE ym[1] - yb

\* mutant: traj[0:], the header is kept
SkipHeaderKeepAll(traj) == traj

\* traj[1:]
SkipHeader(traj) == IF Len(traj) = 0 THEN <<>> ELSE SubSeq(traj, 2, Len(traj))

\* mutant: the subtraction is turned around
RegretOfReversed(record, yb, normalizer) == TrueDiv(yb - record.function_value, normalizer)

\* (record['function_value'] - y_best) / normalizer
RegretOf(record, yb, normalizer) == TrueDiv(record.function_value - yb, normalizer)

\* record['fidelity'][list(record['fidelity'])[0]]
FidelValueOf(record) == record.fidelity[1][2]

\* the division of line 103 raises on the first record when normalizer is 0
RaisesZeroDivisionError(traj, normalizer) ==
    SkipHeader(traj) # <<>> /\ normalizer = 0

\* list(record['fidelity'])[0] raises on an empty mapping
RaisesIndexError(traj) ==
    \E i \in 1..Len(SkipHeader(traj)) : SkipHeader(traj)[i].fidelity = <<>>

\* the columns after one iteration of the loop over enumerate(trajectories)
HandleInput(frame, k, i, traj, yb, normalizer) ==
    LET records == SkipHeader(traj)
        function_values == [j \in 1..Len(records) |-> RegretOf(records[j], yb, normalizer)]
        total_time_used == [j \in 1..Len(records) |-> records[j].total_time_used]
        total_obj_costs == [j \in 1..Len(records) |-> records[j].total_objective_costs]
        costs == [j \in 1..Len(records) |-> records[j].cost]
        start == [j \in 1..Len(records) |-> records[j].start_time]
        finish == [j \in 1..Len(records) |-> records[j].finish_time]
        fidel_values == [j \in 1..Len(records) |-> FidelValueOf(records[j])]
        n == Len(SkipHeader(traj))
    IN  [optimizer |-> frame.optimizer \o [j \in 1..n |-> k],
         id |-> frame.id \o [j \in 1..n |-> i],
         total_time_used |-> frame.total_time_used \o total_time_used,
         total_objective_costs |-> frame.total_objective_costs \o total_obj_costs,
         function_values |-> frame.function_values \o function_values,
         fidel_values |-> frame.fidel_values \o fidel_values,
         costs |-> frame.costs \o costs,
         start_time |-> frame.start_time \o start,
         finish_time |-> frame.finish_time \o finish]

\* pd.DataFrame(dataframe): one row per position, labelled 0..n-1; the cells of
\* function_values and costs are floats that may hold np.inf
DataFrame(frame) ==
    [j \in 1..Len(frame.optimizer) |->
        [index |-> j - 1,
         optimizer |-> frame.optimizer[j],
         id |-> frame.id[j],
         total_time_used |-> frame.total_time_used[j],
         total_objective_costs |-> frame.total_objective_costs[j],
         function_values |-> frame.function_values[j],
         fidel_values |-> frame.fidel_values[j],
         costs |-> Num(frame.costs[j]),
         start_time |-> frame.start_time[j],
         finish_time |-> frame.finish_time[j]]]

\* ------------------------------------------------------------ inputs
RECURSIVE SeqsUpTo(_, _)
\* the sequences over S of length at most n
SeqsUpTo(S, n) ==
    IF n = 0 THEN {<<>>}
    ELSE LET shorter == SeqsUpTo(S, n - 1)
         IN  shorter \cup {Append(s, x) : s \in {t \in shorter : Len(t) = n - 1}, x \in S}

\* the sequences over S of length exactly n
SeqsOfLen(S, n) == {s \in SeqsUpTo(S, n) : Len(s) = n}

\* a run file with k records: a header and then the records; with no record
\* the file may also be empty
RunsWith(RecordSet, k) ==
    {<<Header>> \o recs : recs \in SeqsOfLen(RecordSet, k)} \cup
    (IF k = 0 THEN {<<>>} ELSE {})

RECURSIVE TrajectoriesUpTo(_, _, _)
\* the run files of one optimizer: at most n runs holding at most r records
TrajectoriesUpTo(RecordSet, n, r) ==
    IF n = 0 THEN {<<>>}
    ELSE {<<>>} \cup
         UNION {{<<run>> \o rest : run \in RunsWith(RecordSet, k),
                                   rest \in TrajectoriesUpTo(RecordSet, n - 1, r - k)} :
                k \in 0..r}

Trajectories(RecordSet) == TrajectoriesUpTo(RecordSet, MaxRuns, MaxRecords)

\* records as the Normalizer sees them: values and fidelity mappings vary, the
\* time is filled in by position below
NormalizerRecords ==
    {Record(fv, 1, fid) : fv \in FunctionValues, fid \in SingleFidelity \cup MalformedFidelity}

\* total_time_used increasing along a run
Timed(traj) ==
    [i \in 1..Len(traj) |->
        IF i = 1 THEN traj[i]
        ELSE Record(traj[i].function_value, i - 1, traj[i].fidelity)]

YBest == {0, 1}
YMax == {None, Some(1), Some(3)}

\* the table pipeline is not running
TableIdle ==
    /\ benchmark_spec = [ystar_valid |-> None, ystar_test |-> None, y_max |-> None]
    /\ unvalidated = TRUE
    /\ thresh = Num(1)
    /\ time_limit_in_s = MaxTime
    /\ cut_time_step = Num(0)
    /\ tpc = "idle"
    /\ unique_ids = <<>>
    /\ unique_id = -1
    /\ df = <<>>
    /\ last_inc = <<>>
    /\ result_df = <<>>
    /\ printed = <<>>

\* no truncation step is being compared
TruncIdle ==
    /\ series = <<>>
    /\ thresh1 = Num(1)
    /\ thresh2 = Num(1)
    /\ once = <<>>
    /\ twice = <<>>
    /\ wider = <<>>
    /\ done = {}

\* the loop over the benchmarks is not running
AggIdle ==
    /\ expand = FALSE
    /\ benchmarks = <<>>
    /\ benchmark = 0
    /\ is_dir = TRUE
    /\ keys = <<>>
    /\ opt_list = None
    /\ opts = <<>>
    /\ per_dataset_df = <<>>
    /\ function_values_median = <<>>
    /\ rank_df = <<>>
    /\ best_opt = None
    /\ result_df_complete = <<>>
    /\ row_i = 0

\* plot_correlation is not running
CorrIdle ==
    /\ corr_dir = TRUE
    /\ opt_rh_dc = <<>>
    /\ opt_i = 0
    /\ rhs = <<>>
    /\ conf_dc = <<>>
    /\ f_set = <<>>
    /\ cors = <<>>
    /\ cpc = "idle"

\* no reporter of stats_generation.py other than plot_correlation is running
ReportIdle ==
    /\ reporter = ""
    /\ stat_dc = <<>>
    /\ marker_per_opt = {}

\* no error message
NoMessage == [text |-> "", value |-> "", accepted |-> <<>>]

\* load_dragonfly_options is not running
OptionIdle ==
    /\ hpoexp_settings = <<>>
    /\ type = None
    /\ partial_options = None
    /\ options = None
    /\ called = <<>>
    /\ message = NoMessage
    /\ opc = "idle"

\* create_cmd.py is not running
CmdIdle ==
    /\ cmd_pair = 0
    /\ cmd_c = <<>>
    /\ cmd_list = <<>>
    /\ out_fl = <<>>
    /\ ct = 0
    /\ fhs = <<>>
    /\ wpc = "idle"

\* generate_trajectory is not running
TrajIdle ==
    /\ query_qinfos = <<>>
    /\ q_i = 0
    /\ incumbent = <<>>
    /\ update = FALSE
    /\ gen_trajectories = <<>>
    /\ save_history = FALSE
    /\ recorded_history = <<>>
    /\ saved = <<>>
    /\ gpc = "idle"

\* change_cwd is not running
CwdIdle ==
    /\ tries = 0
    /\ frames = <<>>
    /\ attempts = <<>>
    /\ chdirs = <<>>
    /\ xpc = "idle"

\* BOHBOptimizer.run is not running
BohbIdle ==
    /\ optimizer_settings = <<>>
    /\ events = <<>>
    /\ iterations = <<>>
    /\ result = <<>>
    /\ returned = <<>>
    /\ bpc = "idle"

\* ------------------------------------------------------------ Spec: df_per_optimizer
Init ==
    /\ key = "smac"
    /\ unvalidated_trajectories \in
         {[i \in 1..Len(trajs) |-> Timed(trajs[i])] : trajs \in Trajectories(NormalizerRecords)}
    /\ y_best \in YBest
    /\ y_max \in YMax
    /\ dataframe = EmptyColumns
    /\ id = 0
    /\ pc = "loop"
    /\ exc = ""
    /\ optimizer_df = <<>>
    /\ TableIdle
    /\ TruncIdle
    /\ AggIdle
    /\ CorrIdle
    /\ OptionIdle
    /\ CmdIdle
    /\ TrajIdle
    /\ CwdIdle
    /\ BohbIdle
    /\ ReportIdle

\* the run the loop is at
Traj == unvalidated_trajectories[id + 1]

\* one iteration of `for id, traj in enumerate(unvalidated_trajectories)`
HandleInputStep ==
    /\ pc = "loop"
    /\ id < Len(unvalidated_trajectories)
    /\ ~RaisesZeroDivisionError(Traj, Normalizer(y_best, y_max))
    /\ ~RaisesIndexError(Traj)
    /\ dataframe' = HandleInput(dataframe, key, id, Traj, y_best, Normalizer(y_best, y_max))
    /\ id' = id + 1
    /\ UNCHANGED <<bohbVars, cwdVars, trajVars, cmdVars, optionVars, reportVars, key, unvalidated_trajectories, y_best, y_max, pc, exc, optimizer_df,
                   tableVars, truncVars, aggVars, corrVars>>

\* line 103 divides by a zero normalizer
RaiseZeroDivisionError ==
    /\ pc = "loop"
    /\ id < Len(unvalidated_trajectories)
    /\ RaisesZeroDivisionError(Traj, Normalizer(y_best, y_max))
    /\ pc' = "raised"
    /\ exc' = "ZeroDivisionError"
    /\ UNCHANGED <<bohbVars, cwdVars, trajVars, cmdVars, optionVars, reportVars, key, unvalidated_trajectories, y_best, y_max, dataframe, id, optimizer_df,
                   tableVars, truncVars, aggVars, corrVars>>

\* line 111 indexes the empty key list of an empty fidelity mapping
RaiseIndexError ==
    /\ pc = "loop"
    /\ id < Len(unvalidated_trajectories)
    /\ ~RaisesZeroDivisionError(Traj, Normalizer(y_best, y_max))
    /\ RaisesIndexError(Traj)
    /\ pc' = "raised"
    /\ exc' = "IndexError"
    /\ UNCHANGED <<bohbVars, cwdVars, trajVars, cmdVars, optionVars, reportVars, key, unvalidated_trajectories, y_best, y_max, dataframe, id, optimizer_df,
                   tableVars, truncVars, aggVars, corrVars>>

\* dataframe = pd.DataFrame(dataframe); return dataframe
ReturnDataFrame ==
    /\ pc = "loop"
    /\ id = Len(unvalidated_trajectories)
    /\ optimizer_df' = DataFrame(dataframe)
    /\ pc' = "returned"
    /\ UNCHANGED <<bohbVars, cwdVars, trajVars, cmdVars, optionVars, reportVars, key, unvalidated_trajectories, y_best, y_max, dataframe, id, exc,
                   tableVars, truncVars, aggVars, corrVars>>

Next ==
    \/ HandleInputStep
    \/ RaiseZeroDivisionError
    \/ RaiseIndexError
    \/ ReturnDataFrame

Spec == Init /\ [][Next]_vars

\* ------------------------------------------------------------ claims on Spec
\* the number of non-header records of a run file
NRecords(traj) == IF Len(traj) = 0 THEN 0 ELSE Len(traj) - 1

RECURSIVE Offset(_, _)
\* the number of non-header records in the first n runs
Offset(trajs, n) ==
    IF n = 0 THEN 0 ELSE Offset(trajs, n - 1) + NRecords(trajs[n])

\* the columns hold, for the runs handled so far, each run's records 1.. in order
\* under the run's position as id, and nothing else
RunsInOrder(frame, n) ==
    /\ \A c \in Columns : Len(frame[c]) = Offset(unvalidated_trajectories, n)
    /\ \A r \in 1..n : \A k \in 1..NRecords(unvalidated_trajectories[r]) :
         LET j == Offset(unvalidated_trajectories, r - 1) + k
             record == unvalidated_trajectories[r][k + 1]
         IN  /\ frame.id[j] = r - 1
             /\ frame.optimizer[j] = key
             /\ frame.total_time_used[j] = record.total_time_used
             /\ frame.total_objective_costs[j] = record.total_objective_costs
             /\ frame.costs[j] = record.cost
             /\ frame.start_time[j] = record.start_time
             /\ frame.finish_time[j] = record.finish_time
    /\ \A r \in 1..n :
         Cardinality({j \in 1..Len(frame.id) : frame.id[j] = r - 1})
           = NRecords(unvalidated_trajectories[r])

\* C1: df_per_optimizer drops exactly the record at index 0 of every run: a run
\* contributes its records 1..len-1, in order, as len-1 rows tagged with the
\* run's position, every column has the same number of rows, and the returned
\* DataFrame holds these rows
C1_ExactlyHeaderDropped ==
    /\ pc \in {"loop", "returned"} => RunsInOrder(dataframe, id)
    /\ pc = "returned" =>
         /\ id = Len(unvalidated_trajectories)
         /\ Len(optimizer_df) = Offset(unvalidated_trajectories, id)
         /\ \A j \in 1..Len(optimizer_df) :
              /\ optimizer_df[j].id = dataframe.id[j]
              /\ optimizer_df[j].total_time_used = dataframe.total_time_used[j]

\* a run with two records after its header, beside a second run, was normalized
C1_Witness ==
    /\ pc = "returned"
    /\ Len(unvalidated_trajectories) = 2
    /\ \E r \in 1..2 : Len(unvalidated_trajectories[r]) = 3
    /\ Len(optimizer_df) = 2

\* P(record, row) for every non-header record and the row it became
ForAllRecords(P(_, _)) ==
    \A r \in 1..Len(unvalidated_trajectories) :
        \A k \in 1..NRecords(unvalidated_trajectories[r]) :
            P(unvalidated_trajectories[r][k + 1],
              optimizer_df[Offset(unvalidated_trajectories, r - 1) + k])

\* C2 as claimed: with y_best = 0 every function_values entry is the raw value
C2_IdentityAtZeroYBest ==
    (pc = "returned" /\ y_best = 0) =>
        ForAllRecords(LAMBDA record, row : row.function_values = Num(record.function_value))

\* C2 as amended: with y_best = 0 and a normalizer of 1 (no y_max given, or
\* y_max = 1) every function_values entry is the raw value
C2_IdentityAtZeroYBestUnitNormalizer ==
    (pc = "returned" /\ y_best = 0 /\ y_max \in {None, Some(1)}) =>
        ForAllRecords(LAMBDA record, row : row.function_values = Num(record.function_value))

\* a non-zero raw value went through with y_best = 0 and no y_max
C2_Witness ==
    /\ pc = "returned"
    /\ y_best = 0
    /\ y_max = None
    /\ \E j \in 1..Len(optimizer_df) : optimizer_df[j].function_values = Num(2)

\* C3: function_values is (raw - y_best) / normalizer, the normalizer being 1
\* without a y_max and y_max - y_best with one
C3_RegretFormula ==
    pc = "returned" =>
        LET normalizer == IF y_max = None THEN 1 ELSE y_max[1] - y_best
        IN  ForAllRecords(LAMBDA record, row :
                /\ row.function_values[2] > 0
                /\ row.function_values[1] * normalizer
                     = (record.function_value - y_best) * row.function_values[2])

\* raw value 0 with y_best = 1 and y_max = 3 became -1/2
C3_Witness ==
    /\ pc = "returned"
    /\ y_best = 1
    /\ y_max = Some(3)
    /\ \E j \in 1..Len(optimizer_df) : optimizer_df[j].function_values = <<-1, 2>>

\* C4 as claimed: a fidelity value is produced only for mappings with exactly
\* one entry, so a normal return means every record had a one-entry mapping
C4_MalformedFidelityRaises ==
    pc = "returned" =>
        ForAllRecords(LAMBDA record, row : Len(record.fidelity) = 1)

\* ------------------------------------------------------------ save_median_table_tabular
\* benchmark_spec.get(name, 0)
Get(spec, name) == IF spec[name] = None THEN 0 ELSE spec[name][1]

\* thresh * time_limit_in_s
Times(fraction, n) == TrueDiv(fraction[1] * n, fraction[2])

RECURSIVE Loop(_, _, _, _, _, _)
\* df_per_optimizer's loop from run i on: the columns, or the exception raised
Loop(frame, k, i, trajs, yb, ym) ==
    IF i = Len(trajs) THEN [exc |-> "", frame |-> frame]
    ELSE IF RaisesZeroDivisionError(trajs[i + 1], Normalizer(yb, ym))
         THEN [exc |-> "ZeroDivisionError", frame |-> frame]
    ELSE IF RaisesIndexError(trajs[i + 1])
         THEN [exc |-> "IndexError", frame |-> frame]
    ELSE Loop(HandleInput(frame, k, i, trajs[i + 1], yb, Normalizer(yb, ym)),
              k, i + 1, trajs, yb, ym)

\* df_per_optimizer(key, trajectories, y_best, y_max) as one call
DfPerOptimizer(k, trajs, yb, ym) ==
    LET end == Loop(EmptyColumns, k, 0, trajs, yb, ym)
    IN  [exc |-> end.exc, df |-> IF end.exc = "" THEN DataFrame(end.frame) ELSE <<>>]

RECURSIVE Ascending(_)
\* the members of a set of ints, ascending
Ascending(S) ==
    IF S = {} THEN <<>>
    ELSE LET m == CHOOSE x \in S : \A y \in S : x <= y
         IN  <<m>> \o Ascending(S \ {m})

\* np.unique(optimizer_df['id'])
Unique(odf) == Ascending({odf[j].id : j \in 1..Len(odf)})

\* optimizer_df[optimizer_df['id'] == unique_id]
SeedRows(odf, uid) == SelectSeq(odf, LAMBDA r : r.id = uid)

\* df["fidel_values"].max()
FidelMax(d) ==
    CHOOSE m \in {d[j].fidel_values : j \in 1..Len(d)} :
        \A j \in 1..Len(d) : d[j].fidel_values <= m

\* mutant: the smallest observed fidelity
FidelMin(d) ==
    CHOOSE m \in {d[j].fidel_values : j \in 1..Len(d)} :
        \A j \in 1..Len(d) : d[j].fidel_values >= m

\* mutant: the synthetic row carries the seed's smallest fidelity
SyntheticRowMinFidel(k, uid, d) ==
    [index |-> 0, optimizer |-> k, id |-> uid, total_time_used |-> 0,
     total_objective_costs |-> 0, function_values |-> Inf, fidel_values |-> FidelMin(d),
     costs |-> Num(0), start_time |-> 0, finish_time |-> 1]

\* df2: [key, unique_id, 0, 0, np.inf, df["fidel_values"].max(), 0, 0, 1] under
\* df.columns (optimizer, id, total_time_used, total_objective_costs,
\* function_values, fidel_values, costs, start_time, finish_time)
SyntheticRow(k, uid, d) ==
    [index |-> 0, optimizer |-> k, id |-> uid, total_time_used |-> 0,
     total_objective_costs |-> 0, function_values |-> Inf, fidel_values |-> FidelMax(d),
     costs |-> Num(0), start_time |-> 0, finish_time |-> 1]

\* df.append(df2, ignore_index=True): the rows relabelled 0..n-1
AppendIgnoreIndex(d, d2) ==
    [j \in 1..Len(d) + Len(d2) |->
        [(IF j <= Len(d) THEN d[j] ELSE d2[j - Len(d)]) EXCEPT !.index = j - 1]]

\* the row put behind the rows of a sorted frame that are not later than it
InsertByTime(sorted, row) ==
    SelectSeq(sorted, LAMBDA r : r.total_time_used <= row.total_time_used)
    \o <<row>>
    \o SelectSeq(sorted, LAMBDA r : r.total_time_used > row.total_time_used)

\* the row put behind the rows of a descending frame that are not earlier than it
InsertByTimeDescending(sorted, row) ==
    SelectSeq(sorted, LAMBDA r : r.total_time_used >= row.total_time_used)
    \o <<row>>
    \o SelectSeq(sorted, LAMBDA r : r.total_time_used < row.total_time_used)

RECURSIVE SortValuesDescending(_)
\* mutant: sort_values(by='total_time_used', ascending=False)
SortValuesDescending(d) ==
    IF d = <<>> THEN <<>>
    ELSE InsertByTimeDescending(SortValuesDescending(SubSeq(d, 1, Len(d) - 1)), d[Len(d)])

\* mutant: the sorted frame is not assigned, the rows stay as appended
SortValuesDiscarded(d) == d

RECURSIVE SortValues(_)
\* df.sort_values(by='total_time_used'): ascending, rows of equal time in their
\* order of appearance (numpy sorts short arrays by insertion)
SortValues(d) ==
    IF d = <<>> THEN <<>>
    ELSE InsertByTime(SortValues(SubSeq(d, 1, Len(d) - 1)), d[Len(d)])

\* mutant: the comparison is turned around
AfterReversed(t, cut) == t * cut[2] < cut[1]

\* total_time_used > cut_time_step
After(t, cut) == t * cut[2] > cut[1]

\* df.drop(df[df["total_time_used"] > cut_time_step].index)
Drop(d, cut) ==
    LET labels == {d[j].index : j \in {i \in 1..Len(d) : After(d[i].total_time_used, cut)}}
    IN  SelectSeq(d, LAMBDA r : r.index \notin labels)

\* df.tail(1)
TailOne(d) == IF d = <<>> THEN <<>> ELSE <<d[Len(d)]>>

\* the truncation step of lines 191-198: append the synthetic row, sort, drop
Truncate(k, uid, d, cut) ==
    Drop(SortValues(AppendIgnoreIndex(d, <<SyntheticRow(k, uid, d)>>)), cut)

\* the lst aggregate of groupby('optimizer') on function_values
lst(rows, opt) ==
    LET own == SelectSeq(rows, LAMBDA r : r.optimizer = opt)
    IN  [j \in 1..Len(own) |-> own[j].function_values]

\* ------------------------------------------------------------ SpecTable: inputs
\* records of an incumbent trajectory: the value falls as the time grows; a
\* run file may list them in any order
TableRecords == {Record(MaxTime - t, t, fid) : t \in 1..MaxTime, fid \in SingleFidelity}

\* entries of plot_dc: none, a y_max alone, optima and a y_max
BenchmarkSpecs ==
    {[ystar_valid |-> None, ystar_test |-> None, y_max |-> None],
     [ystar_valid |-> None, ystar_test |-> None, y_max |-> Some(1)],
     [ystar_valid |-> Some(1), ystar_test |-> Some(2), y_max |-> Some(3)]}

\* thresh on a grid of (0, 1]
Thresholds == {TrueDiv(k, ThreshSteps) : k \in 1..ThreshSteps}

\* ------------------------------------------------------------ SpecTable
\* one benchmark and one optimizer of save_median_table_tabular, from the loaded
\* run files to the rows handed to the aggregation
InitTable ==
    /\ key = "smac"
    /\ unvalidated_trajectories \in Trajectories(TableRecords)
    /\ y_best = 0
    /\ y_max = None
    /\ dataframe = EmptyColumns
    /\ id = 0
    /\ pc = "idle"
    /\ exc = ""
    /\ optimizer_df = <<>>
    /\ benchmark_spec \in BenchmarkSpecs
    /\ unvalidated \in BOOLEAN
    /\ thresh \in Thresholds
    /\ time_limit_in_s = MaxTime
    /\ cut_time_step = Num(0)
    /\ tpc = "load"
    /\ unique_ids = <<>>
    /\ unique_id = -1
    /\ df = <<>>
    /\ last_inc = <<>>
    /\ result_df = <<>>
    /\ printed = <<>>
    /\ TruncIdle
    /\ AggIdle
    /\ CorrIdle
    /\ OptionIdle
    /\ CmdIdle
    /\ TrajIdle
    /\ CwdIdle
    /\ BohbIdle
    /\ ReportIdle

\* y_best_val if unvalidated else y_best_test
YBestOf(spec, unval) == IF unval THEN Get(spec, "ystar_valid") ELSE Get(spec, "ystar_test")

\* y_max = benchmark_spec.get("y_max", 0)
YMaxOf(spec) == Some(Get(spec, "y_max"))

\* lines 163-188: the settings of the benchmark are read and the optimizer's
\* runs are normalized
CallDfPerOptimizer ==
    LET call == DfPerOptimizer(key, unvalidated_trajectories,
                               YBestOf(benchmark_spec, unvalidated), YMaxOf(benchmark_spec))
    IN  /\ tpc = "load"
        /\ call.exc = ""
        /\ y_best' = YBestOf(benchmark_spec, unvalidated)
        /\ y_max' = YMaxOf(benchmark_spec)
        /\ cut_time_step' = Times(thresh, time_limit_in_s)
        /\ optimizer_df' = call.df
        /\ unique_ids' = Unique(call.df)
        /\ tpc' = "seeds"
        /\ UNCHANGED <<bohbVars, cwdVars, trajVars, cmdVars, optionVars, reportVars, key, unvalidated_trajectories, dataframe, id, pc, exc, benchmark_spec,
                       unvalidated, thresh, time_limit_in_s, unique_id, df, last_inc,
                       result_df, printed, truncVars, aggVars, corrVars>>

\* the same lines when df_per_optimizer raises: nothing catches the exception
CallDfPerOptimizerRaises ==
    LET call == DfPerOptimizer(key, unvalidated_trajectories,
                               YBestOf(benchmark_spec, unvalidated), YMaxOf(benchmark_spec))
    IN  /\ tpc = "load"
        /\ call.exc # ""
        /\ y_best' = YBestOf(benchmark_spec, unvalidated)
        /\ y_max' = YMaxOf(benchmark_spec)
        /\ cut_time_step' = Times(thresh, time_limit_in_s)
        /\ exc' = call.exc
        /\ tpc' = "raised"
        /\ UNCHANGED <<bohbVars, cwdVars, trajVars, cmdVars, optionVars, reportVars, key, unvalidated_trajectories, dataframe, id, pc, optimizer_df,
                       benchmark_spec, unvalidated, thresh, time_limit_in_s, unique_ids,
                       unique_id, df, last_inc, result_df, printed, truncVars,
                       aggVars, corrVars>>

\* the message of line 202 (line 201 prints the seed before it)
NotEnoughRuns(k, cut) == <<k, "has not enough runs at timestep", cut>>

\* lines 189-205: one iteration of the loop over unique_ids
TruncateSeed ==
    /\ tpc = "seeds"
    /\ unique_ids # <<>>
    /\ LET uid == Head(unique_ids)
           truncated == Truncate(key, uid, SeedRows(optimizer_df, uid), cut_time_step)
       IN  /\ unique_id' = uid
           /\ df' = truncated
           /\ last_inc' = TailOne(truncated)
           /\ printed' = IF Len(TailOne(truncated)) < 1
                         THEN printed \o <<<<uid>>, NotEnoughRuns(key, cut_time_step)>>
                         ELSE printed
           /\ result_df' = result_df \o TailOne(truncated)
    /\ unique_ids' = Tail(unique_ids)
    /\ UNCHANGED <<bohbVars, cwdVars, trajVars, cmdVars, optionVars, reportVars, normVars, benchmark_spec, unvalidated, thresh, time_limit_in_s,
                   cut_time_step, tpc, truncVars, aggVars, corrVars>>

\* the loop over unique_ids is through: result_df goes to the aggregation
EndSeeds ==
    /\ tpc = "seeds"
    /\ unique_ids = <<>>
    /\ tpc' = "aggregate"
    /\ UNCHANGED <<bohbVars, cwdVars, trajVars, cmdVars, optionVars, reportVars, normVars, benchmark_spec, unvalidated, thresh, time_limit_in_s,
                   cut_time_step, unique_ids, unique_id, df, last_inc, result_df, printed,
                   truncVars, aggVars, corrVars>>

NextTable ==
    \/ CallDfPerOptimizer
    \/ CallDfPerOptimizerRaises
    \/ TruncateSeed
    \/ EndSeeds

SpecTable == InitTable /\ [][NextTable]_vars

\* ------------------------------------------------------------ claims on SpecTable
\* the run file of a seed
RunOf(uid) == unvalidated_trajectories[uid + 1]

\* total_time_used <= thresh * time_limit_in_s
WithinBudget(t) == t * thresh[2] <= thresh[1] * time_limit_in_s

\* the records (by position after the header) of a seed that lie within the budget
Within(uid) ==
    {k \in 1..NRecords(RunOf(uid)) : WithinBudget(RunOf(uid)[k + 1].total_time_used)}

\* the largest fidelity level among the records of a seed
MaxObservedFidelity(uid) ==
    CHOOSE m \in {RunOf(uid)[k + 1].fidelity[1][2] : k \in 1..NRecords(RunOf(uid))} :
        \A k \in 1..NRecords(RunOf(uid)) : RunOf(uid)[k + 1].fidelity[1][2] <= m

\* the row is what record k of the seed became
IsRecord(row, uid, k) ==
    /\ row.index = k - 1
    /\ row.id = uid
    /\ row.total_time_used = RunOf(uid)[k + 1].total_time_used
    /\ row.fidel_values = RunOf(uid)[k + 1].fidelity[1][2]
    /\ row.function_values[2] > 0
    /\ row.function_values[1] * (y_max[1] - y_best)
         = (RunOf(uid)[k + 1].function_value - y_best) * row.function_values[2]

\* C5: after the truncation of a seed every surviving row is within the budget,
\* the rows ascend in total_time_used, and when a real record lies within the
\* budget last_inc is a real record of greatest total_time_used within it
C5_TruncationKeepsIncumbent ==
    unique_id # -1 =>
        /\ \A j \in 1..Len(df) : WithinBudget(df[j].total_time_used)
        /\ \A j \in 1..Len(df) - 1 : df[j].total_time_used <= df[j + 1].total_time_used
        /\ Within(unique_id) # {} =>
             /\ Len(last_inc) = 1
             /\ last_inc[1].function_values # Inf
             /\ \E k \in Within(unique_id) :
                  /\ IsRecord(last_inc[1], unique_id, k)
                  /\ \A k2 \in Within(unique_id) :
                       RunOf(unique_id)[k2 + 1].total_time_used
                         <= RunOf(unique_id)[k + 1].total_time_used

\* a run file listing a later record before an earlier one was truncated to
\* the synthetic row and the earlier record
C5_Witness ==
    /\ unique_id # -1
    /\ NRecords(RunOf(unique_id)) = 2
    /\ RunOf(unique_id)[2].total_time_used > RunOf(unique_id)[3].total_time_used
    /\ Within(unique_id) = {2}
    /\ Len(df) = 2
    /\ last_inc[1].index = 1

\* the synthetic row of the seed truncated last: it got the label after the
\* real rows
SentinelRows == SelectSeq(df, LAMBDA r : r.index = NRecords(RunOf(unique_id)))

\* C6 as claimed: the synthetic row has an infinite cost and the seed's maximum
\* fidelity, and the truncated series has a last row
C6_SentinelInfiniteCost ==
    unique_id # -1 =>
        /\ Len(SentinelRows) = 1
        /\ SentinelRows[1].costs = Inf
        /\ SentinelRows[1].fidel_values = MaxObservedFidelity(unique_id)
        /\ Len(last_inc) = 1

\* C6 as amended: the synthetic row has an infinite function value (its cost is
\* 0, its total_time_used 0) and the seed's maximum fidelity; it survives every
\* truncation, so the series has a last row, which is the synthetic row when no
\* real record is within the budget
C6_SentinelInfiniteValue ==
    unique_id # -1 =>
        /\ Len(SentinelRows) = 1
        /\ SentinelRows[1].function_values = Inf
        /\ SentinelRows[1].costs = Num(0)
        /\ SentinelRows[1].total_time_used = 0
        /\ SentinelRows[1].fidel_values = MaxObservedFidelity(unique_id)
        /\ Len(last_inc) = 1
        /\ Within(unique_id) = {} => last_inc = SentinelRows

\* a seed with records of two fidelity levels, none within the budget
C6_Witness ==
    /\ unique_id # -1
    /\ NRecords(RunOf(unique_id)) = 2
    /\ RunOf(unique_id)[2].fidelity # RunOf(unique_id)[3].fidelity
    /\ Within(unique_id) = {}
    /\ Len(df) = 1

\* C7 as claimed: when no real record of a seed is within the budget the
\* optimizer is reported as not having enough runs at the timestep
C7_DegenerateCaseReported ==
    (unique_id # -1 /\ Within(unique_id) = {}) =>
        \E j \in 1..Len(printed) : printed[j] = NotEnoughRuns(key, cut_time_step)

\* C8 as claimed: the values aggregated for the optimizer come only from seeds
\* with a real record within the budget
C8_NoDataPointWithoutRecord ==
    tpc = "aggregate" =>
        /\ \A j \in 1..Len(result_df) : Within(result_df[j].id) # {}
        /\ \A j \in 1..Len(lst(result_df, key)) : lst(result_df, key)[j] # Inf

\* ------------------------------------------------------------ SpecTrunc
\* the normalized series of one seed: the rows df_per_optimizer makes of one
\* run file with at least one record (y_best 0, y_max 1)
SeedSeries ==
    {SeedRows(DfPerOptimizer("smac", <<run>>, 0, Some(1)).df, 0) :
        run \in UNION {RunsWith(TableRecords, k) : k \in 1..MaxRecords}}

InitTrunc ==
    /\ key = "smac"
    /\ unvalidated_trajectories = <<>>
    /\ y_best = 0
    /\ y_max = None
    /\ dataframe = EmptyColumns
    /\ id = 0
    /\ pc = "idle"
    /\ exc = ""
    /\ optimizer_df = <<>>
    /\ TableIdle
    /\ series \in SeedSeries
    /\ thresh1 \in Thresholds
    /\ thresh2 \in Thresholds
    /\ once = <<>>
    /\ twice = <<>>
    /\ wider = <<>>
    /\ done = {}
    /\ AggIdle
    /\ CorrIdle
    /\ OptionIdle
    /\ CmdIdle
    /\ TrajIdle
    /\ CwdIdle
    /\ BohbIdle
    /\ ReportIdle

\* lines 191-198 on the seed's series at thresh1
TruncateOnce ==
    /\ "once" \notin done
    /\ once' = Truncate(key, 0, series, Times(thresh1, time_limit_in_s))
    /\ done' = done \cup {"once"}
    /\ UNCHANGED <<bohbVars, cwdVars, trajVars, cmdVars, optionVars, reportVars, normVars, tableVars, series, thresh1, thresh2, twice, wider,
                   aggVars, corrVars>>

\* lines 191-198 on the series already truncated at thresh1, at thresh1 again
TruncateAgain ==
    /\ "once" \in done
    /\ "twice" \notin done
    /\ twice' = Truncate(key, 0, once, Times(thresh1, time_limit_in_s))
    /\ done' = done \cup {"twice"}
    /\ UNCHANGED <<bohbVars, cwdVars, trajVars, cmdVars, optionVars, reportVars, normVars, tableVars, series, thresh1, thresh2, once, wider,
                   aggVars, corrVars>>

\* lines 191-198 on the seed's series at thresh2
TruncateWider ==
    /\ "wider" \notin done
    /\ wider' = Truncate(key, 0, series, Times(thresh2, time_limit_in_s))
    /\ done' = done \cup {"wider"}
    /\ UNCHANGED <<bohbVars, cwdVars, trajVars, cmdVars, optionVars, reportVars, normVars, tableVars, series, thresh1, thresh2, once, twice,
                   aggVars, corrVars>>

NextTrunc ==
    \/ TruncateOnce
    \/ TruncateAgain
    \/ TruncateWider

SpecTrunc == InitTrunc /\ [][NextTrunc]_vars

\* ------------------------------------------------------------ claims on SpecTrunc
\* the cells of a frame without its row labels
Values(d) == [j \in 1..Len(d) |-> [d[j] EXCEPT !.index = 0]]

\* C9 as claimed: the truncation step applied to its own result gives that
\* result again
C9_TruncationIdempotent ==
    "twice" \in done => Values(twice) = Values(once)

\* C9 as amended: the truncation step applied to its own result gives that
\* result with one more synthetic row, a copy of the first, in front of it: the
\* real rows and the last row are the same
C9_TruncationAddsOneSentinel ==
    "twice" \in done =>
        /\ Len(once) >= 1
        /\ once[1].function_values = Inf
        /\ Values(twice) = <<Values(once)[1]>> \o Values(once)
        /\ Values(TailOne(twice)) = Values(TailOne(once))

\* a series of two records of different fidelity, the one of higher fidelity
\* beyond the budget, was truncated twice
C9_Witness ==
    /\ "twice" \in done
    /\ Len(series) = 2
    /\ Len(once) = 2
    /\ Len(twice) = 3
    /\ once[2].fidel_values < once[1].fidel_values

\* a < b on fractions
Less(a, b) == a[1] * b[2] < b[1] * a[2]

\* C10: for thresh1 < thresh2 the series truncated at thresh1 * time_limit_in_s
\* is a prefix of the series truncated at thresh2 * time_limit_in_s
C10_TruncationMonotone ==
    ({"once", "wider"} \subseteq done /\ Less(thresh1, thresh2)) =>
        /\ Len(once) <= Len(wider)
        /\ \A j \in 1..Len(once) : once[j] = wider[j]

\* the wider budget keeps a real record that the narrower one drops, behind a
\* real record both keep
C10_Witness ==
    /\ {"once", "wider"} \subseteq done
    /\ Less(thresh1, thresh2)
    /\ Len(once) = 2
    /\ Len(wider) = 3
    /\ series[1].total_time_used > series[2].total_time_used

\* ------------------------------------------------------------ the Aggregator
\* np.nan
NaN == <<0, 0>>

\* a + b on floats: fractions, np.inf (never -np.inf here) and np.nan
Plus(a, b) ==
    IF a = NaN \/ b = NaN THEN NaN
    ELSE IF a = Inf \/ b = Inf THEN Inf
    ELSE TrueDiv(a[1] * b[2] + b[1] * a[2], a[2] * b[2])

\* a / n for an int n > 0
Over(a, n) == IF a[2] = 0 THEN a ELSE TrueDiv(a[1], a[2] * n)

RECURSIVE SortedValues(_)
\* np.sort of an array without nan
SortedValues(x) ==
    IF x = <<>> THEN <<>>
    ELSE LET rest == SortedValues(SubSeq(x, 1, Len(x) - 1))
             v == x[Len(x)]
         IN  SelectSeq(rest, LAMBDA u : ~Less(v, u)) \o <<v>>
             \o SelectSeq(rest, LAMBDA u : Less(v, u))

\* mutant: the upper of the two middle values of an even-sized array
medianUpper(x) == SortedValues(x)[Len(x) \div 2 + 1]

\* np.median(np.array(x)) of a non-empty x: the middle value of the sorted
\* array, the mean of the two middle values when the size is even
median(x) ==
    LET s == SortedValues(x)
        n == Len(x)
    IN  IF n % 2 = 1 THEN s[(n + 1) \div 2]
        ELSE Over(Plus(s[n \div 2], s[n \div 2 + 1]), 2)

\* the optimizers of the tables, list(opt_list['main_sf'])[:2] of __main__
OptList == <<"randomsearch", "de">>

\* the same names in the order of sorted()
Alphabetical == <<"de", "randomsearch">>

\* the group keys of groupby('optimizer'), sorted
GroupKeys(rows) ==
    SelectSeq(Alphabetical, LAMBDA o : \E j \in 1..Len(rows) : rows[j].optimizer = o)

\* result_df.groupby('optimizer').agg(...) with the joined column names and
\* value_lst_len: one row per optimizer (the columns function_values_q1,
\* function_values_q3 and total_time_used_median are not read again)
Agg(rows) ==
    [j \in 1..Len(GroupKeys(rows)) |->
        LET o == GroupKeys(rows)[j]
        IN  [optimizer |-> o,
             function_values_median |-> median(lst(rows, o)),
             function_values_lst |-> lst(rows, o),
             value_lst_len |-> Len(lst(rows, o))]]

RECURSIVE LastRows(_, _, _, _)
\* lines 189-205 for the seeds in ids: the last row of every truncated series
LastRows(k, odf, ids, cut) ==
    IF ids = <<>> THEN <<>>
    ELSE TailOne(Truncate(k, Head(ids), SeedRows(odf, Head(ids)), cut))
         \o LastRows(k, odf, Tail(ids), cut)

\* the index of a Series or of a table with one row per optimizer
IndexOf(s) == {s[j].optimizer : j \in 1..Len(s)}

\* s[o] where the alignment of two indexes asks for it: nan when o is missing
Lookup(s, o) ==
    IF o \in IndexOf(s)
    THEN s[CHOOSE j \in 1..Len(s) : s[j].optimizer = o].function_values_median
    ELSE NaN

\* per_dataset_df[benchmark].function_values_median, a Series over the optimizers
SeriesOf(table) ==
    [j \in 1..Len(table) |->
        [optimizer |-> table[j].optimizer,
         function_values_median |-> table[j].function_values_median]]

\* s1 + s2 on Series: aligned on the union of the indexes, sorted
SeriesPlus(s1, s2) ==
    LET index == SelectSeq(Alphabetical, LAMBDA o : o \in IndexOf(s1) \cup IndexOf(s2))
    IN  [j \in 1..Len(index) |->
            [optimizer |-> index[j],
             function_values_median |-> Plus(Lookup(s1, index[j]), Lookup(s2, index[j]))]]

RECURSIVE SeriesSum(_, _)
\* lines 236-237: result_df[0] after the series from i on were added to it
SeriesSum(series_list, i) ==
    IF i = 1 THEN series_list[1]
    ELSE SeriesPlus(SeriesSum(series_list, i - 1), series_list[i])

\* mutant: the sum is not divided
AverageOfMediansUndivided(per_dataset) ==
    SeriesSum([b \in 1..Len(per_dataset) |-> SeriesOf(per_dataset[b].table)],
              Len(per_dataset))

\* lines 233-239 for a non-empty per_dataset_df
AverageOfMedians(per_dataset) ==
    LET series_list == [b \in 1..Len(per_dataset) |-> SeriesOf(per_dataset[b].table)]
        total == SeriesSum(series_list, Len(series_list))
    IN  [j \in 1..Len(total) |->
            [total[j] EXCEPT !.function_values_median = Over(@, Len(series_list))]]

\* ------------------------------------------------------------ SpecAgg: inputs
\* benchmarks of a family that pass check_task_id
MaxBenchmarks == 2

\* the records of the run files read in SpecAgg: an early evaluation and one at
\* the time limit
AggRecords == {Record(MaxTime - t, t, << <<FidelityNames[1], 1>> >>) : t \in {1, MaxTime}}

\* run files read by one call of the table function, over all benchmarks and
\* optimizers
MaxSeeds == 3

\* load_json_files(unique_optimizer[key]): at most n run files of one
\* optimizer, each a header alone or a header and one record
AggTrajectories(n) == SeqsUpTo({<<Header>>} \cup {<<Header, r>> : r \in AggRecords}, n)

RECURSIVE SeedsIn(_)
\* the seeds counted in value_lst_len over the optimizers of a table
SeedsIn(table) ==
    IF table = <<>> THEN 0 ELSE Head(table).value_lst_len + SeedsIn(Tail(table))

RECURSIVE SeedsAggregated(_)
\* the seeds of the benchmarks aggregated so far
SeedsAggregated(per_dataset) ==
    IF per_dataset = <<>> THEN 0
    ELSE SeedsIn(Head(per_dataset).table) + SeedsAggregated(Tail(per_dataset))

\* run files left to read while the rows of a benchmark are collected
SeedsLeft == MaxSeeds - SeedsAggregated(per_dataset_df) - Len(result_df)

\* the optimizers a benchmark directory may hold runs of
KeysOnDisk ==
    {SelectSeq(Alphabetical, LAMBDA o : o \in S) :
        S \in SUBSET {Alphabetical[j] : j \in 1..Len(Alphabetical)}}

\* list(load_trajectories_as_df(input_dir, which).keys()): the optimizers with
\* run files under input_dir, none when the directory is absent
LoadTrajectoriesAsDf(dir) == IF dir THEN KeysOnDisk ELSE {<<>>}

\* plot_dc.get(benchmark, {}) of a tabular benchmark: no entry, or optima and
\* a y_max
PlotDc == {spec \in BenchmarkSpecs : (spec.y_max = None) = (spec.ystar_valid = None)}

\* the progress line of line 320, printed by the expanded variant only:
\* "\n{:<2}/{:<2}\n".format(i, len(benchmarks))
Progress(i, n) == <<"{:<2}/{:<2}", i, n>>

\* the message of lines 158 and 325
ResultFolderDoesntExist(b) == <<"Result folder doesn't exist", b>>

RECURSIVE NotEnoughRunsPrinted(_, _, _, _)
\* what lines 200-202 print over the seeds in ids
NotEnoughRunsPrinted(k, odf, ids, cut) ==
    IF ids = <<>> THEN <<>>
    ELSE (IF Len(TailOne(Truncate(k, Head(ids), SeedRows(odf, Head(ids)), cut))) < 1
          THEN <<<<Head(ids)>>, NotEnoughRuns(k, cut)>>
          ELSE <<>>)
         \o NotEnoughRunsPrinted(k, odf, Tail(ids), cut)

\* ------------------------------------------------------------ SpecAgg
\* save_median_table_tabular (expand = FALSE) and save_median_table_tabular_expanded
\* (expand = TRUE) as __main__ calls them, over the benchmarks of one family.
\* A benchmark is its position in benchmarks.  What is on disk is read when the
\* code reads it: the directory at the head of the loop over benchmarks, an
\* optimizer's run files at load_json_files.  __main__ passes opt_list; a call
\* that leaves it out starts with the default, None.
InitAgg ==
    /\ key = ""
    /\ unvalidated_trajectories = <<>>
    /\ y_best = 0
    /\ y_max = None
    /\ dataframe = EmptyColumns
    /\ id = 0
    /\ pc = "idle"
    /\ exc = ""
    /\ optimizer_df = <<>>
    /\ benchmark_spec = [ystar_valid |-> None, ystar_test |-> None, y_max |-> None]
    /\ unvalidated \in BOOLEAN
    /\ thresh \in Thresholds
    /\ time_limit_in_s = MaxTime
    /\ cut_time_step = Num(0)
    /\ tpc = "benchmarks"
    /\ unique_ids = <<>>
    /\ unique_id = -1
    /\ df = <<>>
    /\ last_inc = <<>>
    /\ result_df = <<>>
    /\ printed = <<>>
    /\ TruncIdle
    /\ CorrIdle
    /\ OptionIdle
    /\ CmdIdle
    /\ TrajIdle
    /\ CwdIdle
    /\ BohbIdle
    /\ ReportIdle
    /\ expand \in BOOLEAN
    /\ benchmarks \in {[b \in 1..n |-> b] : n \in 0..MaxBenchmarks}
    /\ benchmark = 0
    /\ is_dir = TRUE
    /\ keys = <<>>
    /\ opt_list \in {None, Some(OptList)}
    /\ opts = <<>>
    /\ per_dataset_df = <<>>
    /\ function_values_median = <<>>
    /\ rank_df = <<>>
    /\ best_opt = None
    /\ result_df_complete = <<>>
    /\ row_i = 0

\* lines 153-175 (319-341): the head of the loop over benchmarks
StartBenchmark ==
    /\ tpc = "benchmarks"
    /\ benchmark < Len(benchmarks)
    /\ \E dir \in BOOLEAN, spec \in PlotDc :
         \E unique_optimizer \in LoadTrajectoriesAsDf(dir) :
            /\ benchmark' = benchmarks[benchmark + 1]
            /\ is_dir' = dir
            /\ printed' = printed
                          \o (IF expand
                              THEN <<Progress(benchmark + 1, Len(benchmarks))>>
                              ELSE <<>>)
                          \o (IF ~dir
                              THEN <<ResultFolderDoesntExist(benchmark + 1)>>
                              ELSE <<>>)
            /\ benchmark_spec' = spec
            /\ y_best' = YBestOf(spec, unvalidated)
            /\ y_max' = YMaxOf(spec)
            /\ keys' = unique_optimizer
            /\ opt_list' = IF opt_list = None THEN Some(unique_optimizer) ELSE opt_list
            /\ opts' = (IF opt_list = None THEN Some(unique_optimizer) ELSE opt_list)[1]
    /\ cut_time_step' = Times(thresh, time_limit_in_s)
    /\ result_df' = <<>>
    /\ tpc' = "optimizers"
    /\ UNCHANGED <<bohbVars, cwdVars, trajVars, cmdVars, optionVars, reportVars, key, unvalidated_trajectories, dataframe, id, pc, exc, optimizer_df,
                   unvalidated, thresh, time_limit_in_s, unique_ids, unique_id, df,
                   last_inc, truncVars, corrVars, expand, benchmarks, per_dataset_df,
                   function_values_median, rank_df, best_opt, result_df_complete, row_i>>

\* lines 176-179: an optimizer of opt_list without runs in this benchmark
SkipOptimizer ==
    /\ tpc = "optimizers"
    /\ opts # <<>>
    /\ Head(opts) \notin {keys[j] : j \in 1..Len(keys)}
    /\ key' = Head(opts)
    /\ opts' = Tail(opts)
    /\ UNCHANGED <<bohbVars, cwdVars, trajVars, cmdVars, optionVars, reportVars, unvalidated_trajectories, y_best, y_max, dataframe, id, pc, exc,
                   optimizer_df, tableVars, truncVars, corrVars, expand, benchmarks,
                   benchmark, is_dir, keys, opt_list, per_dataset_df,
                   function_values_median, rank_df, best_opt, result_df_complete, row_i>>

\* lines 176-205: the runs of one optimizer are loaded and normalized and the
\* last row of every seed's truncated series is appended to result_df (the
\* locals trajectories, optimizer_df, unique_ids and those of the loop over the
\* seeds are followed in SpecTable, not here)
ProcessOptimizer ==
    /\ tpc = "optimizers"
    /\ opts # <<>>
    /\ Head(opts) \in {keys[j] : j \in 1..Len(keys)}
    /\ \E trajectories \in AggTrajectories(SeedsLeft) :
         LET call == DfPerOptimizer(Head(opts), trajectories, y_best, y_max)
         IN  /\ call.exc = ""
             /\ printed' = printed \o NotEnoughRunsPrinted(Head(opts), call.df,
                                                           Unique(call.df), cut_time_step)
             /\ result_df' = result_df \o LastRows(Head(opts), call.df, Unique(call.df),
                                                   cut_time_step)
    /\ key' = Head(opts)
    /\ opts' = Tail(opts)
    /\ UNCHANGED <<bohbVars, cwdVars, trajVars, cmdVars, optionVars, reportVars, unvalidated_trajectories, y_best, y_max, dataframe, id, pc, exc,
                   optimizer_df, benchmark_spec, unvalidated, thresh, time_limit_in_s,
                   cut_time_step, tpc, unique_ids, unique_id, df, last_inc, truncVars,
                   corrVars, expand, benchmarks, benchmark, is_dir, keys, opt_list,
                   per_dataset_df, function_values_median, rank_df, best_opt,
                   result_df_complete, row_i>>

\* the same lines when df_per_optimizer raises: nothing catches the exception
ProcessOptimizerRaises ==
    /\ tpc = "optimizers"
    /\ opts # <<>>
    /\ Head(opts) \in {keys[j] : j \in 1..Len(keys)}
    /\ \E trajectories \in AggTrajectories(SeedsLeft) :
         LET call == DfPerOptimizer(Head(opts), trajectories, y_best, y_max)
         IN  /\ call.exc # ""
             /\ exc' = call.exc
    /\ key' = Head(opts)
    /\ tpc' = "raised"
    /\ UNCHANGED <<bohbVars, cwdVars, trajVars, cmdVars, optionVars, reportVars, unvalidated_trajectories, y_best, y_max, dataframe, id, pc,
                   optimizer_df, benchmark_spec, unvalidated, thresh, time_limit_in_s,
                   cut_time_step, unique_ids, unique_id, df, last_inc, result_df,
                   printed, truncVars, corrVars, expand, benchmarks, benchmark, is_dir,
                   keys, opt_list, opts, per_dataset_df, function_values_median, rank_df,
                   best_opt, result_df_complete, row_i>>

\* lines 207-231 (367-390): the rows of the benchmark are grouped by optimizer
Aggregate ==
    /\ tpc = "optimizers"
    /\ opts = <<>>
    /\ result_df # <<>>
    /\ result_df' = Agg(result_df)
    /\ per_dataset_df' = Append(per_dataset_df,
                                [benchmark |-> benchmark, table |-> Agg(result_df)])
    /\ tpc' = "benchmarks"
    /\ UNCHANGED <<bohbVars, cwdVars, trajVars, cmdVars, optionVars, reportVars, normVars, benchmark_spec, unvalidated, thresh, time_limit_in_s,
                   cut_time_step, unique_ids, unique_id, df, last_inc, printed,
                   truncVars, corrVars, expand, benchmarks, benchmark, is_dir, keys,
                   opt_list, opts, function_values_median, rank_df, best_opt,
                   result_df_complete, row_i>>

\* line 226 (386) when no row was appended: pd.DataFrame() has no column
\* 'optimizer' to group by
AggregateRaises ==
    /\ tpc = "optimizers"
    /\ opts = <<>>
    /\ result_df = <<>>
    /\ exc' = "KeyError"
    /\ tpc' = "raised"
    /\ UNCHANGED <<bohbVars, cwdVars, trajVars, cmdVars, optionVars, reportVars, key, unvalidated_trajectories, y_best, y_max, dataframe, id, pc,
                   optimizer_df, benchmark_spec, unvalidated, thresh, time_limit_in_s,
                   cut_time_step, unique_ids, unique_id, df, last_inc, result_df,
                   printed, truncVars, corrVars, aggVars>>

\* lines 233-239: the medians are averaged over the benchmarks
Average ==
    /\ tpc = "benchmarks"
    /\ benchmark = Len(benchmarks)
    /\ ~expand
    /\ per_dataset_df # <<>>
    /\ function_values_median' = AverageOfMedians(per_dataset_df)
    /\ tpc' = "ranks"
    /\ UNCHANGED <<bohbVars, cwdVars, trajVars, cmdVars, optionVars, reportVars, normVars, benchmark_spec, unvalidated, thresh, time_limit_in_s,
                   cut_time_step, unique_ids, unique_id, df, last_inc, result_df,
                   printed, truncVars, corrVars, expand, benchmarks, benchmark, is_dir,
                   keys, opt_list, opts, per_dataset_df, rank_df, best_opt,
                   result_df_complete, row_i>>

\* line 238 without a benchmark: result_df[0] of an empty list
AverageRaises ==
    /\ tpc = "benchmarks"
    /\ benchmark = Len(benchmarks)
    /\ ~expand
    /\ per_dataset_df = <<>>
    /\ exc' = "IndexError"
    /\ tpc' = "raised"
    /\ UNCHANGED <<bohbVars, cwdVars, trajVars, cmdVars, optionVars, reportVars, key, unvalidated_trajectories, y_best, y_max, dataframe, id, pc,
                   optimizer_df, benchmark_spec, unvalidated, thresh, time_limit_in_s,
                   cut_time_step, unique_ids, unique_id, df, last_inc, result_df,
                   printed, truncVars, corrVars, aggVars>>

\* line 242: result_df.transpose is the bound method, which has no attribute
\* copy; lines 243-288 (rank_df, best_opt, the table) are never reached
ComputeRanksRaises ==
    /\ tpc = "ranks"
    /\ exc' = "AttributeError"
    /\ tpc' = "raised"
    /\ UNCHANGED <<bohbVars, cwdVars, trajVars, cmdVars, optionVars, reportVars, key, unvalidated_trajectories, y_best, y_max, dataframe, id, pc,
                   optimizer_df, benchmark_spec, unvalidated, thresh, time_limit_in_s,
                   cut_time_step, unique_ids, unique_id, df, last_inc, result_df,
                   printed, truncVars, corrVars, aggVars>>

\* the columns of pd.DataFrame.from_dict(_dfs).transpose(): every optimizer
\* with a median in some benchmark
ColumnsOf(per_dataset) == UNION {IndexOf(per_dataset[b].table) : b \in 1..Len(per_dataset)}

\* lines 393-394: one row per benchmark, one column per optimizer of opt_list;
\* a cell holds the number and whether it is wrapped in textbf
Complete(per_dataset, columns) ==
    [b \in 1..Len(per_dataset) |->
        [benchmark |-> per_dataset[b].benchmark,
         cells |-> [j \in 1..Len(columns) |->
                       [optimizer |-> columns[j],
                        val |-> Lookup(per_dataset[b].table, columns[j]),
                        textbf |-> FALSE]]]]

\* lines 393-394
Collate ==
    /\ tpc = "benchmarks"
    /\ benchmark = Len(benchmarks)
    /\ expand
    /\ opt_list # None
    /\ {opt_list[1][j] : j \in 1..Len(opt_list[1])} \subseteq ColumnsOf(per_dataset_df)
    /\ result_df_complete' = Complete(per_dataset_df, opt_list[1])
    /\ row_i' = 0
    /\ tpc' = "rows"
    /\ UNCHANGED <<bohbVars, cwdVars, trajVars, cmdVars, optionVars, reportVars, normVars, benchmark_spec, unvalidated, thresh, time_limit_in_s,
                   cut_time_step, unique_ids, unique_id, df, last_inc, result_df,
                   printed, truncVars, corrVars, expand, benchmarks, benchmark, is_dir,
                   keys, opt_list, opts, per_dataset_df, function_values_median, rank_df,
                   best_opt>>

\* line 394 when opt_list is None or names an optimizer that is no column
CollateRaises ==
    /\ tpc = "benchmarks"
    /\ benchmark = Len(benchmarks)
    /\ expand
    /\ IF opt_list = None THEN TRUE
       ELSE ~({opt_list[1][j] : j \in 1..Len(opt_list[1])} \subseteq ColumnsOf(per_dataset_df))
    /\ exc' = "KeyError"
    /\ tpc' = "raised"
    /\ UNCHANGED <<bohbVars, cwdVars, trajVars, cmdVars, optionVars, reportVars, key, unvalidated_trajectories, y_best, y_max, dataframe, id, pc,
                   optimizer_df, benchmark_spec, unvalidated, thresh, time_limit_in_s,
                   cut_time_step, unique_ids, unique_id, df, last_inc, result_df,
                   printed, truncVars, corrVars, aggVars>>

\* result_df.min() of a row: the smallest cell that is not nan
RowMin(cells) ==
    LET vals == {cells[j].val : j \in 1..Len(cells)} \ {NaN}
    IN  IF vals = {} THEN NaN ELSE CHOOSE m \in vals : \A v \in vals : ~Less(v, m)

\* np.where(result_df.values == result_df.min())[0], 1-based; nan == nan is
\* False, so no cell of a row of nan is among them
BestIdxs(cells) ==
    {j \in 1..Len(cells) : cells[j].val # NaN /\ cells[j].val = RowMin(cells)}

\* lines 397-446 for one row: every cell is formatted and the cells of
\* best_opts are wrapped in textbf
MarkRow ==
    /\ tpc = "rows"
    /\ row_i < Len(result_df_complete)
    /\ LET cells == result_df_complete[row_i + 1].cells
       IN  result_df_complete' =
             [result_df_complete EXCEPT ![row_i + 1].cells =
                [j \in 1..Len(cells) |->
                    [cells[j] EXCEPT !.textbf = (j \in BestIdxs(cells))]]]
    /\ row_i' = row_i + 1
    /\ UNCHANGED <<bohbVars, cwdVars, trajVars, cmdVars, optionVars, reportVars, normVars, tableVars, truncVars, corrVars, expand, benchmarks,
                   benchmark, is_dir, keys, opt_list, opts, per_dataset_df,
                   function_values_median, rank_df, best_opt>>

\* lines 448-458: the table is written
WriteExpanded ==
    /\ tpc = "rows"
    /\ row_i = Len(result_df_complete)
    /\ tpc' = "done"
    /\ UNCHANGED <<bohbVars, cwdVars, trajVars, cmdVars, optionVars, reportVars, normVars, benchmark_spec, unvalidated, thresh, time_limit_in_s,
                   cut_time_step, unique_ids, unique_id, df, last_inc, result_df,
                   printed, truncVars, corrVars, aggVars>>

NextAgg ==
    \/ StartBenchmark
    \/ SkipOptimizer
    \/ ProcessOptimizer
    \/ ProcessOptimizerRaises
    \/ Aggregate
    \/ AggregateRaises
    \/ Average
    \/ AverageRaises
    \/ ComputeRanksRaises
    \/ Collate
    \/ CollateRaises
    \/ MarkRow
    \/ WriteExpanded

SpecAgg == InitAgg /\ [][NextAgg]_vars

\* ------------------------------------------------------------ claims on SpecAgg
\* how many members of a list lie below x, and how many do not lie above it
Below(x, L) == Cardinality({j \in 1..Len(L) : Less(L[j], x)})
NotAbove(x, L) == Cardinality({j \in 1..Len(L) : ~Less(x, L[j])})

\* x is the k-th smallest member of L
IsOrderStatistic(x, L, k) ==
    /\ \E j \in 1..Len(L) : L[j] = x
    /\ Below(x, L) < k
    /\ k <= NotAbove(x, L)

\* m is the median of L: the middle member for an odd size, the mean of the two
\* middle members for an even size
IsMedian(m, L) ==
    LET n == Len(L)
    IN  IF n % 2 = 1 THEN IsOrderStatistic(m, L, (n + 1) \div 2)
        ELSE \E j, k \in 1..n :
                /\ IsOrderStatistic(L[j], L, n \div 2)
                /\ IsOrderStatistic(L[k], L, n \div 2 + 1)
                /\ Plus(m, m) = Plus(L[j], L[k])

\* the positions of an optimizer's rows among the per-seed last rows
RowsOf(rows, o) == {j \in 1..Len(rows) : rows[j].optimizer = o}

\* C11: when the per-seed last rows of a benchmark are aggregated, the table has
\* one entry per optimizer with rows; the rows of an optimizer come from
\* different seeds, its value list holds the function value of each of them once
\* and nothing else, value_lst_len is their number, and the reported median is
\* the median of the list
C11_MedianPerOptimizer ==
    [][(tpc = "optimizers" /\ tpc' = "benchmarks") =>
        LET table == per_dataset_df'[Len(per_dataset_df')].table
        IN  /\ Len(per_dataset_df') = Len(per_dataset_df) + 1
            /\ IndexOf(table) = {result_df[j].optimizer : j \in 1..Len(result_df)}
            /\ \A e \in 1..Len(table) :
                LET own == RowsOf(result_df, table[e].optimizer)
                    L == table[e].function_values_lst
                IN  /\ \A i, j \in own : result_df[i].id = result_df[j].id => i = j
                    /\ Len(L) = Cardinality(own)
                    /\ table[e].value_lst_len = Cardinality(own)
                    /\ \A v \in {result_df[j].function_values : j \in own}
                             \cup {L[j] : j \in 1..Len(L)} :
                          Cardinality({j \in 1..Len(L) : L[j] = v}) =
                          Cardinality({j \in own : result_df[j].function_values = v})
                    /\ IsMedian(table[e].function_values_median, L)]_vars

\* three seeds of one optimizer were aggregated: the median is the value of the
\* first seed, which the second seed undercuts (as 0.1 among 0.1, 0.05, 0.2)
C11_Witness ==
    \E b \in 1..Len(per_dataset_df) :
        \E e \in 1..Len(per_dataset_df[b].table) :
            LET entry == per_dataset_df[b].table[e]
                L == entry.function_values_lst
            IN  /\ entry.value_lst_len = 3
                /\ entry.function_values_median = L[1]
                /\ Less(L[2], L[1])
                /\ ~Less(L[3], L[1])

\* the processed benchmarks in which an optimizer has a median
BenchmarksWith(o) ==
    {b \in 1..Len(per_dataset_df) : o \in IndexOf(per_dataset_df[b].table)}

RECURSIVE SumOfMedians(_, _)
\* the sum of an optimizer's medians over the first n processed benchmarks
SumOfMedians(o, n) ==
    IF n = 0 THEN Num(0)
    ELSE IF n \in BenchmarksWith(o)
         THEN Plus(SumOfMedians(o, n - 1), Lookup(per_dataset_df[n].table, o))
         ELSE SumOfMedians(o, n - 1)

\* C12 as claimed: once the medians are averaged, every optimizer with a median
\* in some processed benchmark has as score the sum of its medians divided by
\* the number of processed benchmarks
C12_MeanOfMedians ==
    tpc = "ranks" =>
        \A o \in ColumnsOf(per_dataset_df) :
            /\ o \in IndexOf(function_values_median)
            /\ Lookup(function_values_median, o) =
                 Over(SumOfMedians(o, Len(per_dataset_df)), Len(per_dataset_df))

\* C12, amended: the score of an optimizer with a median in every processed
\* benchmark is the sum of its medians divided by the number of processed
\* benchmarks; an optimizer without a median in some processed benchmark has
\* the score nan
C12_MeanOfMediansWhereComplete ==
    tpc = "ranks" =>
        /\ IndexOf(function_values_median) = ColumnsOf(per_dataset_df)
        /\ \A o \in ColumnsOf(per_dataset_df) :
              Lookup(function_values_median, o) =
                 IF BenchmarksWith(o) = 1..Len(per_dataset_df)
                 THEN Over(SumOfMedians(o, Len(per_dataset_df)), Len(per_dataset_df))
                 ELSE NaN

\* two benchmarks were averaged: one optimizer has different finite medians in
\* them and a score strictly between the two, another has a median in one of
\* them only
C12_Witness ==
    /\ tpc = "ranks"
    /\ Len(per_dataset_df) = 2
    /\ \E o \in ColumnsOf(per_dataset_df) :
          LET m1 == Lookup(per_dataset_df[1].table, o)
              m2 == Lookup(per_dataset_df[2].table, o)
              score == Lookup(function_values_median, o)
          IN  /\ BenchmarksWith(o) = {1, 2}
              /\ Less(m1, score)
              /\ Less(score, m2)
              /\ Less(m2, Inf)
    /\ \E o \in ColumnsOf(per_dataset_df) : Cardinality(BenchmarksWith(o)) = 1

\* save_median_table_tabular has averaged the medians and has left line 242
PastRanks == ~expand /\ function_values_median # <<>> /\ tpc # "ranks"

\* C13: past the averaging an optimizer is selected as best, and its averaged
\* median is minimal among the optimizers of the result table
C13_BestHasMinimalScore ==
    PastRanks =>
        /\ best_opt # None
        /\ best_opt[1] \in IndexOf(function_values_median)
        /\ \A o \in IndexOf(function_values_median) :
              ~Less(Lookup(function_values_median, o),
                    Lookup(function_values_median, best_opt[1]))

\* the cells of a row of the expanded table that hold the row's minimum
TiedCells(cells) == {j \in 1..Len(cells) : cells[j].val = RowMin(cells)}

\* the positions of the result table that hold the minimal averaged median
TiedScores ==
    {j \in 1..Len(function_values_median) :
        function_values_median[j].function_values_median
          = RowMin([k \in 1..Len(function_values_median) |->
                      [val |-> function_values_median[k].function_values_median]])}

\* C14: where several optimizers share the minimum exactly one of them is
\* marked best, the one that comes first in the table: in the table of averaged
\* medians the first of them is selected, and in a written row of the expanded
\* table only the first of the cells at the minimum is in textbf
C14_OneBestFirstArgmin ==
    /\ (PastRanks /\ Cardinality(TiedScores) > 1) =>
          /\ best_opt # None
          /\ \E j \in TiedScores :
                /\ function_values_median[j].optimizer = best_opt[1]
                /\ \A k \in TiedScores : j <= k
    /\ tpc = "done" =>
          \A r \in 1..Len(result_df_complete) :
              LET cells == result_df_complete[r].cells
              IN  Cardinality(TiedCells(cells)) > 1 =>
                      \A j \in 1..Len(cells) :
                          cells[j].textbf =
                            (j \in TiedCells(cells) /\ \A k \in TiedCells(cells) : j <= k)

\* C15: past the averaging rank_df holds one rank per optimizer of the result
\* table, the ranks are the numbers 1..n, each once, and a lower score has a
\* lower rank
C15_OrdinalRanks ==
    PastRanks =>
        /\ {rank_df[j].optimizer : j \in 1..Len(rank_df)} = IndexOf(function_values_median)
        /\ Len(rank_df) = Len(function_values_median)
        /\ {rank_df[j].rank : j \in 1..Len(rank_df)} = 1..Len(function_values_median)
        /\ \A i, j \in 1..Len(rank_df) :
              Less(Lookup(function_values_median, rank_df[i].optimizer),
                   Lookup(function_values_median, rank_df[j].optimizer))
              => rank_df[i].rank < rank_df[j].rank

\* ------------------------------------------------------------ plot_correlation
\* names of hyperparameters, in the order of sorted()
HyperparameterNames == <<"C", "gamma">>

\* the place of a name in that order
NamePos(name) ==
    CHOOSE j \in 1..Len(HyperparameterNames) : HyperparameterNames[j] = name

\* a configuration mapping is the sequence of its (name, value) items in dict
\* order: one mapping in both orders, one with another value, one with one key
Configurations ==
    {<< <<"C", 1>>, <<"gamma", 1>> >>, << <<"gamma", 1>>, <<"C", 1>> >>,
     << <<"C", 2>>, <<"gamma", 1>> >>, << <<"C", 1>> >>}

\* fidelity levels of the run histories
CorrFidelLevels == {1, 3, 8}

\* a record of a run history
RunhistoryRecord(configuration, l, fv) ==
    [configuration |-> configuration, fidelity |-> << <<FidelityNames[1], l>> >>,
     function_value |-> fv]

RECURSIVE ObjectiveValue(_, _)
\* the benchmark is a table: the function value follows from the mapping and
\* the fidelity level, whatever the order of the keys
ObjectiveValue(configuration, l) ==
    IF configuration = <<>> THEN l
    ELSE 10 * Head(configuration)[2] + ObjectiveValue(Tail(configuration), l)

RunhistoryRecords ==
    {RunhistoryRecord(c, l, ObjectiveValue(c, l)) :
        c \in Configurations, l \in CorrFidelLevels}

\* the record at index 0 of a run history
RunhistoryHeader == RunhistoryRecord(<<>>, 0, 0)

\* mutant: json.dumps(configuration) without sort_keys
JsonDumpsUnsorted(configuration) == configuration

RECURSIVE JsonDumps(_)
\* json.dumps(configuration, sort_keys=True): the text lists the items by
\* ascending key, so it is given by the sorted sequence of the items
JsonDumps(configuration) ==
    IF configuration = <<>> THEN <<>>
    ELSE LET rest == JsonDumps(SubSeq(configuration, 1, Len(configuration) - 1))
             item == configuration[Len(configuration)]
         IN  SelectSeq(rest, LAMBDA u : NamePos(u[1]) <= NamePos(item[1]))
             \o <<item>>
             \o SelectSeq(rest, LAMBDA u : NamePos(u[1]) > NamePos(item[1]))

\* conf_dc[c][f] = v on the defaultdict(dict): entries in insertion order, each
\* a fingerprint c and its mapping from fidelity levels to function values
Store(index, c, f, v) ==
    IF \E j \in 1..Len(index) : index[j].c = c
    THEN [j \in 1..Len(index) |->
            IF index[j].c = c
            THEN [index[j] EXCEPT !.values = (f :> v) @@ index[j].values]
            ELSE index[j]]
    ELSE Append(index, [c |-> c, values |-> (f :> v)])

RECURSIVE ReadRecords(_, _, _)
\* lines 183-187 over the records of one run history
ReadRecords(index, fs, records) ==
    IF records = <<>> THEN [conf_dc |-> index, f_set |-> fs]
    ELSE LET record == Head(records)
         IN  ReadRecords(Store(index, JsonDumps(record.configuration),
                               FidelValueOf(record), record.function_value),
                         Append(fs, FidelValueOf(record)), Tail(records))

RECURSIVE ReadRunhistories(_, _, _)
\* lines 182-187 over the run histories of one optimizer
ReadRunhistories(index, fs, runs) ==
    IF runs = <<>> THEN [conf_dc |-> index, f_set |-> fs]
    ELSE LET read == ReadRecords(index, fs, SubSeq(Head(runs), 2, Len(Head(runs))))
         IN  ReadRunhistories(read.conf_dc, read.f_set, Tail(runs))

\* the slot of a small non-negative int in the hash table of a set of fewer
\* than five members (hash(x) = x, eight slots)
HashSlot(x) == x % 8

RECURSIVE SetOrder(_)
\* list(set(f_set)): the members in the order of their slots, which differ for
\* the levels of CorrFidelLevels
SetOrder(S) ==
    IF S = {} THEN <<>>
    ELSE LET m == CHOOSE x \in S : \A y \in S : HashSlot(x) <= HashSlot(y)
         IN  <<m>> \o SetOrder(S \ {m})

\* mutant: both samples are read at f1
PairedSamplesSameLevel(index, f1, f2) ==
    LET both == SelectSeq(index, LAMBDA e : f1 \in DOMAIN e.values /\ f2 \in DOMAIN e.values)
    IN  [a |-> [j \in 1..Len(both) |-> both[j].values[f1]],
         b |-> [j \in 1..Len(both) |-> both[j].values[f1]]]

\* lines 195-200: the arrays a and b of the pair (f1, f2)
PairedSamples(index, f1, f2) ==
    LET both == SelectSeq(index, LAMBDA e : f1 \in DOMAIN e.values /\ f2 \in DOMAIN e.values)
    IN  [a |-> [j \in 1..Len(both) |-> both[j].values[f1]],
         b |-> [j \in 1..Len(both) |-> both[j].values[f2]]]

\* line 204: the entry of cors under the key (f1, f2); in place of the
\* coefficient it keeps the arrays spearmanr is called with
Entry(index, f1, f2) ==
    [f1 |-> f1, f2 |-> f2, a |-> PairedSamples(index, f1, f2).a,
     b |-> PairedSamples(index, f1, f2).b, n |-> Len(PairedSamples(index, f1, f2).a)]

\* mutant: the inner loop runs over f_set[fi:]
InnerLoopFromSelf(index, fs, fi) ==
    [k \in 1..(Len(fs) - fi + 1) |-> Entry(index, fs[fi], fs[fi + k - 1])]

\* lines 194-204: the entries made for f1 = f_set[fi] (fi counted from 1)
InnerLoop(index, fs, fi) ==
    [k \in 1..(Len(fs) - fi) |-> Entry(index, fs[fi], fs[fi + k])]

RECURSIVE Correlations(_, _, _)
\* lines 192-204 from f_set[fi] on: the entries of cors in insertion order
Correlations(index, fs, fi) ==
    IF fi > Len(fs) THEN <<>>
    ELSE InnerLoop(index, fs, fi) \o Correlations(index, fs, fi + 1)

\* ------------------------------------------------------------ SpecCorr
\* records read by one call of plot_correlation
MaxCorrRecords == 3

\* optimizers with a folder in the benchmark directory
CorrOptimizers == <<"randomsearch", "dehb", "autosmac">>

\* the characters of the names of optimizers and families
Chars(s) ==
    CASE s = "randomsearch" -> <<"r", "a", "n", "d", "o", "m", "s", "e", "a", "r", "c", "h">>
      [] s = "dehb" -> <<"d", "e", "h", "b">>
      [] s = "autosmac" -> <<"a", "u", "t", "o", "s", "m", "a", "c">>
      [] s = "smac" -> <<"s", "m", "a", "c">>
      [] s = "hpbands" -> <<"h", "p", "b", "a", "n", "d", "s">>

\* Python's `sub in s` on strings
In(sub, s) ==
    \E k \in 0..(Len(s) - Len(sub)) : SubSeq(s, k + 1, k + Len(sub)) = sub

\* mutant: the families an optimizer's name starts with
FamiliesAtStartOf(opt) ==
    {family \in {"smac", "dehb", "hpbands"} :
        /\ Len(Chars(family)) <= Len(Chars(opt))
        /\ SubSeq(Chars(opt), 1, Len(Chars(family))) = Chars(family)}

\* which of "smac", "dehb", "hpbands" occur in an optimizer's name
FamiliesIn(opt) ==
    {family \in {"smac", "dehb", "hpbands"} : In(Chars(family), Chars(opt))}

\* load_trajectories_as_df(input_dir, which="runhistory") of an existing
\* directory: the optimizers found, each with the number of its run history files
OptRhDcs ==
    {[j \in 1..Len(names) |-> [opt |-> names[j], files |-> files[j]]] :
        <<names, files>> \in
            UNION {{SelectSeq(CorrOptimizers, LAMBDA o : o \in S)} \X
                   [1..Cardinality(S) -> 0..1] :
                   S \in SUBSET {CorrOptimizers[j] : j \in 1..Len(CorrOptimizers)}}}

\* load_trajectories(opt_rh_dc[opt]) of one file: a header and at most n records
Runhistories(n) == {<<<<RunhistoryHeader>> \o records>> : records \in SeqsUpTo(RunhistoryRecords, n)}

\* plot_correlation for one benchmark; what is on disk is read when the code
\* reads it
InitCorr ==
    /\ key = ""
    /\ unvalidated_trajectories = <<>>
    /\ y_best = 0
    /\ y_max = None
    /\ dataframe = EmptyColumns
    /\ id = 0
    /\ pc = "idle"
    /\ exc = ""
    /\ optimizer_df = <<>>
    /\ TableIdle
    /\ TruncIdle
    /\ AggIdle
    /\ corr_dir \in BOOLEAN
    /\ opt_rh_dc = <<>>
    /\ opt_i = 0
    /\ rhs = <<>>
    /\ conf_dc = <<>>
    /\ f_set = <<>>
    /\ cors = <<>>
    /\ cpc = "assert"
    /\ OptionIdle
    /\ CmdIdle
    /\ TrajIdle
    /\ CwdIdle
    /\ BohbIdle
    /\ ReportIdle

\* line 164 on an absent directory
AssertionRaises ==
    /\ cpc = "assert"
    /\ ~corr_dir
    /\ exc' = "AssertionError"
    /\ cpc' = "raised"
    /\ UNCHANGED <<bohbVars, cwdVars, trajVars, cmdVars, optionVars, reportVars, key, unvalidated_trajectories, y_best, y_max, dataframe, id, pc,
                   optimizer_df, tableVars, truncVars, aggVars, corr_dir, opt_rh_dc,
                   opt_i, rhs, conf_dc, f_set, cors>>

\* lines 163-171 on an existing directory
LoadRunhistories ==
    /\ cpc = "assert"
    /\ corr_dir
    /\ opt_rh_dc' \in OptRhDcs
    /\ cpc' = "opts"
    /\ UNCHANGED <<bohbVars, cwdVars, trajVars, cmdVars, optionVars, reportVars, normVars, tableVars, truncVars, aggVars, corr_dir, opt_i, rhs,
                   conf_dc, f_set, cors>>

\* lines 172-177: an optimizer of no family with fidelities
SkipOpt ==
    /\ cpc = "opts"
    /\ opt_i < Len(opt_rh_dc)
    /\ FamiliesIn(opt_rh_dc[opt_i + 1].opt) \cap {"smac", "dehb", "hpbands"} = {}
    /\ opt_i' = opt_i + 1
    /\ UNCHANGED <<bohbVars, cwdVars, trajVars, cmdVars, optionVars, reportVars, normVars, tableVars, truncVars, aggVars, corr_dir, opt_rh_dc, rhs,
                   conf_dc, f_set, cors, cpc>>

\* line 179: an optimizer without run history files
NoRunhistory ==
    /\ cpc = "opts"
    /\ opt_i < Len(opt_rh_dc)
    /\ FamiliesIn(opt_rh_dc[opt_i + 1].opt) \cap {"smac", "dehb", "hpbands"} # {}
    /\ opt_rh_dc[opt_i + 1].files = 0
    /\ opt_i' = opt_i + 1
    /\ UNCHANGED <<bohbVars, cwdVars, trajVars, cmdVars, optionVars, reportVars, normVars, tableVars, truncVars, aggVars, corr_dir, opt_rh_dc, rhs,
                   conf_dc, f_set, cors, cpc>>

\* lines 181-187: the records of an optimizer's run histories are indexed
ReadOpt ==
    /\ cpc = "opts"
    /\ opt_i < Len(opt_rh_dc)
    /\ FamiliesIn(opt_rh_dc[opt_i + 1].opt) \cap {"smac", "dehb", "hpbands"} # {}
    /\ opt_rh_dc[opt_i + 1].files # 0
    /\ \E loaded \in Runhistories(MaxCorrRecords - Len(f_set)) :
          /\ rhs' = loaded
          /\ conf_dc' = ReadRunhistories(conf_dc, f_set, loaded).conf_dc
          /\ f_set' = ReadRunhistories(conf_dc, f_set, loaded).f_set
    /\ opt_i' = opt_i + 1
    /\ UNCHANGED <<bohbVars, cwdVars, trajVars, cmdVars, optionVars, reportVars, normVars, tableVars, truncVars, aggVars, corr_dir, opt_rh_dc, cors,
                   cpc>>

\* lines 189-228: the levels are made unique and every pair of them gets its
\* entry; the plot and the table read cors under the keys made here
Correlate ==
    /\ cpc = "opts"
    /\ opt_i = Len(opt_rh_dc)
    /\ f_set' = SetOrder({f_set[j] : j \in 1..Len(f_set)})
    /\ cors' = Correlations(conf_dc, SetOrder({f_set[j] : j \in 1..Len(f_set)}), 1)
    /\ cpc' = "done"
    /\ UNCHANGED <<bohbVars, cwdVars, trajVars, cmdVars, optionVars, reportVars, normVars, tableVars, truncVars, aggVars, corr_dir, opt_rh_dc, opt_i,
                   rhs, conf_dc>>

NextCorr ==
    \/ AssertionRaises
    \/ LoadRunhistories
    \/ SkipOpt
    \/ NoRunhistory
    \/ ReadOpt
    \/ Correlate

SpecCorr == InitCorr /\ [][NextCorr]_vars

\* ------------------------------------------------------------ claims on SpecCorr
\* the records of the run histories loaded last, headers left out
RecordsRead ==
    UNION {{rhs[i][j] : j \in 2..Len(rhs[i])} : i \in 1..Len(rhs)}

\* two mappings hold the same key/value pairs
SamePairs(c1, c2) == {c1[j] : j \in 1..Len(c1)} = {c2[j] : j \in 1..Len(c2)}

\* C16: no two entries of the index hold the same key/value pairs, and every
\* record read has exactly one entry with the pairs of its configuration, which
\* holds the record's fidelity level: records with the same pairs in any key
\* order share an entry, records differing in a key or a value do not
C16_FingerprintOrderIndependent ==
    /\ \A i, j \in 1..Len(conf_dc) : SamePairs(conf_dc[i].c, conf_dc[j].c) => i = j
    /\ \A record \in RecordsRead :
          /\ Cardinality({j \in 1..Len(conf_dc) :
                            SamePairs(conf_dc[j].c, record.configuration)}) = 1
          /\ \A j \in 1..Len(conf_dc) :
                SamePairs(conf_dc[j].c, record.configuration)
                => FidelValueOf(record) \in DOMAIN conf_dc[j].values

\* two records with the same pairs in different key order were stored under
\* one entry, with both their levels, and a record with another value under a
\* second entry
C16_Witness ==
    /\ Len(conf_dc) = 2
    /\ \E r1, r2, r3 \in RecordsRead :
          /\ r1.configuration # r2.configuration
          /\ SamePairs(r1.configuration, r2.configuration)
          /\ FidelValueOf(r1) # FidelValueOf(r2)
          /\ Len(r3.configuration) = Len(r1.configuration)
          /\ ~SamePairs(r1.configuration, r3.configuration)
          /\ \E j \in 1..Len(conf_dc) :
                DOMAIN conf_dc[j].values = {FidelValueOf(r1), FidelValueOf(r2)}

\* the fidelity levels that occur in the index
ObservedLevels == UNION {DOMAIN conf_dc[j].values : j \in 1..Len(conf_dc)}

\* C17: the correlation table has exactly one entry for every unordered pair of
\* distinct observed levels, no entry (f, f) and no entry with a level that was
\* not observed
C17_TableTriangular ==
    cpc = "done" =>
        /\ \A f1, f2 \in ObservedLevels :
              f1 # f2 =>
                Cardinality({k \in 1..Len(cors) :
                                {cors[k].f1, cors[k].f2} = {f1, f2}}) = 1
        /\ \A k \in 1..Len(cors) :
              /\ cors[k].f1 # cors[k].f2
              /\ {cors[k].f1, cors[k].f2} \subseteq ObservedLevels

\* three levels were observed and the table has its three entries
C17_Witness ==
    /\ cpc = "done"
    /\ Cardinality(ObservedLevels) = 3
    /\ Len(cors) = 3

\* C18: every key (f1, f2) of the correlation table has f1 < f2
C18_KeysAscending ==
    cpc = "done" => \A k \in 1..Len(cors) : cors[k].f1 < cors[k].f2

\* the entries of the index with a value at both levels
WithBoth(f1, f2) ==
    {j \in 1..Len(conf_dc) : {f1, f2} \subseteq DOMAIN conf_dc[j].values}

\* C19: for every entry (f1, f2) of the table the sample size n is the number
\* of fingerprints with a value at both levels, and the pairs (a[i], b[i]) are
\* the pairs (value at f1, value at f2) of those fingerprints, each once
C19_PairedByFingerprint ==
    cpc = "done" =>
        \A k \in 1..Len(cors) :
            LET entry == cors[k]
                both == WithBoth(entry.f1, entry.f2)
            IN  /\ entry.n = Cardinality(both)
                /\ Len(entry.a) = entry.n
                /\ Len(entry.b) = entry.n
                /\ \A p \in {<<entry.a[i], entry.b[i]>> : i \in 1..entry.n}
                         \cup {<<conf_dc[j].values[entry.f1],
                                 conf_dc[j].values[entry.f2]>> : j \in both} :
                      Cardinality({i \in 1..entry.n : <<entry.a[i], entry.b[i]>> = p}) =
                      Cardinality({j \in both : <<conf_dc[j].values[entry.f1],
                                                  conf_dc[j].values[entry.f2]>> = p})

\* one fingerprint has a value at both levels of an entry and gave its pair,
\* another fingerprint has a value at one of the levels only and gave none
C19_Witness ==
    /\ cpc = "done"
    /\ \E k \in 1..Len(cors) :
          /\ cors[k].n = 1
          /\ cors[k].a # cors[k].b
          /\ \E j \in 1..Len(conf_dc) :
                /\ j \notin WithBoth(cors[k].f1, cors[k].f2)
                /\ DOMAIN conf_dc[j].values \cap {cors[k].f1, cors[k].f2} # {}

\* ------------------------------------------------------------ absent directories
\* C20: a benchmark whose result directory is absent is reported and skipped,
\* it does not abort the batch: the table function never ends in an exception
\* at a benchmark whose directory is absent
C20_AbsentDirectorySkipped ==
    (tpc = "raised" /\ benchmark >= 1) => is_dir

\* ------------------------------------------------------------ SpecReport
\* plot_fidels, plot_overhead and plot_ecdf of stats_generation.py for one
\* benchmark.  The three share their shape with plot_correlation and its
\* locals: the assertion on the directory, load_trajectories_as_df, the loop
\* over the optimizers found.  df_per_optimizer is called with the optimizer's
\* name, the loaded runs and y_best; y_max is never passed.  One call reads at
\* most MaxRecords records over all optimizers.
Reporters == {"plot_fidels", "plot_overhead", "plot_ecdf"}

\* records of the run histories the reporters read
ReportRecords == {Record(fv, 1, fid) : fv \in FunctionValues, fid \in SingleFidelity}

\* load_trajectories(opt_rh_dc[opt]): one run per file, of at most n records
LoadTrajectories(files, n) ==
    IF files = 0 THEN {<<>>}
    ELSE {<<Timed(run)>> : run \in UNION {RunsWith(ReportRecords, k) : k \in 0..n}}

RECURSIVE RowsIn(_)
\* the rows of the DataFrames built so far
RowsIn(dc) == IF dc = <<>> THEN 0 ELSE Len(Head(dc).df) + RowsIn(Tail(dc))

\* the keys of marker_per_opt of plotting_utils.py: the optimizers that have a
\* marker
MarkerPerOpts == SUBSET {CorrOptimizers[j] : j \in 1..Len(CorrOptimizers)}

\* marker_per_opt[opt] at line 54 of plot_fidels, reached for every optimizer
\* of stat_dc whose DataFrame holds a seed: the optimizers without a marker
NoMarker(name, dc, markers) ==
    {j \in 1..Len(dc) : name = "plot_fidels" /\ Len(dc[j].df) > 0 /\ dc[j].opt \notin markers}

\* the test in front of `continue` at the head of the loop body: plot_fidels
\* (line 33) and plot_ecdf (line 131) take the length of the mapping of all
\* optimizers, plot_overhead (line 78) the length of the optimizer's file list
Continues(name, dc, i) ==
    IF name = "plot_overhead" THEN dc[i].files = 0 ELSE Len(dc) = 0

InitReport ==
    /\ key = ""
    /\ unvalidated_trajectories = <<>>
    /\ y_best = 0
    /\ y_max = None
    /\ dataframe = EmptyColumns
    /\ id = 0
    /\ pc = "idle"
    /\ exc = ""
    /\ optimizer_df = <<>>
    /\ TableIdle
    /\ TruncIdle
    /\ AggIdle
    /\ corr_dir \in BOOLEAN
    /\ opt_rh_dc = <<>>
    /\ opt_i = 0
    /\ rhs = <<>>
    /\ conf_dc = <<>>
    /\ f_set = <<>>
    /\ cors = <<>>
    /\ cpc = "assert"
    /\ reporter \in Reporters
    /\ stat_dc = <<>>
    /\ marker_per_opt \in MarkerPerOpts
    /\ OptionIdle
    /\ CmdIdle
    /\ TrajIdle
    /\ CwdIdle
    /\ BohbIdle

\* lines 27, 69, 116 on an absent directory
ReportAssertionRaises ==
    /\ cpc = "assert"
    /\ ~corr_dir
    /\ exc' = "AssertionError"
    /\ cpc' = "raised"
    /\ UNCHANGED <<bohbVars, cwdVars, trajVars, cmdVars, optionVars, key, unvalidated_trajectories, y_best, y_max, dataframe, id, pc,
                   optimizer_df, tableVars, truncVars, aggVars, corr_dir, opt_rh_dc,
                   opt_i, rhs, conf_dc, f_set, cors, reportVars>>

\* lines 26-31, 68-76, 115-128 on an existing directory: the optimizers are
\* listed; plot_overhead and plot_ecdf read y_best from plot_dc
LoadReport ==
    /\ cpc = "assert"
    /\ corr_dir
    /\ opt_rh_dc' \in OptRhDcs
    /\ \E spec \in PlotDc :
          y_best' = IF reporter = "plot_fidels" THEN 0 ELSE Get(spec, "ystar_valid")
    /\ cpc' = "opts"
    /\ UNCHANGED <<bohbVars, cwdVars, trajVars, cmdVars, optionVars, key, unvalidated_trajectories, y_max, dataframe, id, pc, exc,
                   optimizer_df, tableVars, truncVars, aggVars, corr_dir, opt_i, rhs,
                   conf_dc, f_set, cors, reportVars>>

\* lines 33, 78, 131 when the test holds: the optimizer is skipped
ContinueReport ==
    /\ cpc = "opts"
    /\ opt_i < Len(opt_rh_dc)
    /\ Continues(reporter, opt_rh_dc, opt_i + 1)
    /\ opt_i' = opt_i + 1
    /\ UNCHANGED <<bohbVars, cwdVars, trajVars, cmdVars, optionVars, normVars, tableVars, truncVars, aggVars, corr_dir, opt_rh_dc, rhs,
                   conf_dc, f_set, cors, cpc, reportVars>>

\* lines 34-36, 79-99, 132-146: the optimizer's files are loaded and normalized
\* and the DataFrame is plotted (plot_fidels keeps it in stat_dc for its plot)
NormalizeReport ==
    /\ cpc = "opts"
    /\ opt_i < Len(opt_rh_dc)
    /\ ~Continues(reporter, opt_rh_dc, opt_i + 1)
    /\ \E loaded \in LoadTrajectories(opt_rh_dc[opt_i + 1].files, MaxRecords - RowsIn(stat_dc)) :
          /\ rhs' = loaded
          /\ key' = opt_rh_dc[opt_i + 1].opt
          /\ unvalidated_trajectories' = loaded
          /\ optimizer_df' = DfPerOptimizer(opt_rh_dc[opt_i + 1].opt, loaded, y_best, None).df
          /\ stat_dc' = Append(stat_dc,
                [opt |-> opt_rh_dc[opt_i + 1].opt,
                 df |-> DfPerOptimizer(opt_rh_dc[opt_i + 1].opt, loaded, y_best, None).df])
    /\ opt_i' = opt_i + 1
    /\ UNCHANGED <<bohbVars, cwdVars, trajVars, cmdVars, optionVars, y_best, y_max, dataframe, id, pc, exc, tableVars, truncVars, aggVars,
                   corr_dir, opt_rh_dc, conf_dc, f_set, cors, cpc, reporter,
                   marker_per_opt>>

\* lines 38-63, 101-110, 148-158: the figure is saved
SaveReport ==
    /\ cpc = "opts"
    /\ opt_i = Len(opt_rh_dc)
    /\ NoMarker(reporter, stat_dc, marker_per_opt) = {}
    /\ cpc' = "done"
    /\ UNCHANGED <<bohbVars, cwdVars, trajVars, cmdVars, optionVars, normVars, tableVars, truncVars, aggVars, corr_dir, opt_rh_dc, opt_i,
                   rhs, conf_dc, f_set, cors, reportVars>>

\* lines 40-54: plot_fidels looks up the marker of an optimizer that has none
SaveReportRaises ==
    /\ cpc = "opts"
    /\ opt_i = Len(opt_rh_dc)
    /\ NoMarker(reporter, stat_dc, marker_per_opt) # {}
    /\ exc' = "KeyError"
    /\ cpc' = "raised"
    /\ UNCHANGED <<bohbVars, cwdVars, trajVars, cmdVars, optionVars, key, unvalidated_trajectories, y_best, y_max, dataframe, id, pc,
                   optimizer_df, tableVars, truncVars, aggVars, corr_dir, opt_rh_dc,
                   opt_i, rhs, conf_dc, f_set, cors, reportVars>>

NextReport ==
    \/ ReportAssertionRaises
    \/ LoadReport
    \/ ContinueReport
    \/ NormalizeReport
    \/ SaveReport
    \/ SaveReportRaises

SpecReport == InitReport /\ [][NextReport]_vars

\* the files of the optimizer at place j of opt_rh_dc
FilesOf(o) ==
    LET j == CHOOSE j \in 1..Len(opt_rh_dc) : opt_rh_dc[j].opt = o
    IN  opt_rh_dc[j].files

\* C21: an optimizer whose set of run files is empty is skipped by every
\* reporter: its files are never loaded or normalized, whatever the reporter,
\* and the remaining optimizers are still processed.
C21_EmptyOptimizerSkipped ==
    /\ \A j \in 1..Len(stat_dc) : FilesOf(stat_dc[j].opt) # 0
    /\ cpc = "done" =>
          \A j \in 1..Len(opt_rh_dc) :
              opt_rh_dc[j].files # 0 =>
                  \E k \in 1..Len(stat_dc) : stat_dc[k].opt = opt_rh_dc[j].opt

\* ------------------------------------------------------------ load_dragonfly_options
\* the keys of known_types, in the order of the dict
KnownTypes == <<"default", "tabular">>

\* values under 'type' in the optimizer settings; None stands for a missing key
\* as well, since dict.get() returns None for it
TypeValues == {None, Some("default"), Some("tabular"), Some("Default"), Some("realtime")}

\* optimizer settings of the dragonfly optimizer
Settings ==
    [type : TypeValues,
     time_limit_in_s : {None, Some(MaxTime)},
     init_capital_frac : {None} \cup {Some(TrueDiv(k, ThreshSteps)) : k \in 1..ThreshSteps},
     num_init_eval : {None} \cup {Some(n) : n \in 1..MaxRuns}]

\* sys.maxsize of line 99 for a Py_ssize_t of 64 bits, 2^63 - 1, in decimal
\* digits; it depends on the build (2^31 - 1 for 32 bits) and is stored
\* only, never computed with
MaxSize == "9223372036854775807"

\* str(type): the text of a string, 'None' for None
Str(t) == IF t = None THEN "None" ELSE t[1]

\* type not in known_types
NotIn(t) == IF t = None THEN TRUE ELSE \A j \in 1..Len(KnownTypes) : KnownTypes[j] # t[1]

\* mutant: the message without the accepted values
UnrecognizedValueBare(t) ==
    [text |-> "Unrecognized value '%s' for key 'type' in dragonfly optimizer settings.",
     value |-> Str(t), accepted |-> <<>>]

\* the message of lines 121-123
UnrecognizedValue(t) ==
    [text |-> "Unrecognized value '%s' for key 'type' in dragonfly optimizer settings. Accepted values are: %s",
     value |-> Str(t), accepted |-> KnownTypes]

\* budget * init_frac raises TypeError when one of them is None
ConstructDefaultRaises(settings) ==
    settings.time_limit_in_s = None \/ settings.init_capital_frac = None

\* construct_default_options(), lines 78-90
ConstructDefaultOptions(settings) ==
    [capital_type |-> "realtime",
     max_capital |-> Inf,
     init_capital |-> Some(Times(settings.init_capital_frac[1], settings.time_limit_in_s[1]))]

\* construct_tabular_options(), lines 92-106
ConstructTabularOptions(settings) ==
    [capital_type |-> "num_evals",
     max_capital |-> MaxSize,
     init_capital |-> None,
     init_capital_frac |-> None,
     num_init_evals |-> settings.num_init_eval]

\* partial_options["max_or_min"] = "min"
WithMin(partial) ==
    [k \in DOMAIN partial \cup {"max_or_min"} |->
        IF k = "max_or_min" THEN "min" ELSE partial[k]]

\* ------------------------------------------------------------ SpecOptions
\* load_dragonfly_options(hpoexp_settings, config), one step per statement
\* from line 113 on
InitOptions ==
    /\ key = ""
    /\ unvalidated_trajectories = <<>>
    /\ y_best = 0
    /\ y_max = None
    /\ dataframe = EmptyColumns
    /\ id = 0
    /\ pc = "idle"
    /\ exc = ""
    /\ optimizer_df = <<>>
    /\ TableIdle
    /\ TruncIdle
    /\ AggIdle
    /\ CorrIdle
    /\ ReportIdle
    /\ CmdIdle
    /\ TrajIdle
    /\ CwdIdle
    /\ BohbIdle
    /\ hpoexp_settings \in Settings
    /\ type = None
    /\ partial_options = None
    /\ options = None
    /\ called = <<>>
    /\ message = NoMessage
    /\ opc = "get"

\* lines 113-118: dict.get() raises no KeyError, type is None for a missing key
GetType ==
    /\ opc = "get"
    /\ type' = hpoexp_settings.type
    /\ opc' = "check"
    /\ UNCHANGED <<bohbVars, cwdVars, trajVars, cmdVars, normVars, tableVars, truncVars, aggVars, corrVars, reportVars,
                   hpoexp_settings, partial_options, options, called, message>>

\* lines 120-123
RaiseValueError ==
    /\ opc = "check"
    /\ NotIn(type)
    /\ exc' = "ValueError"
    /\ message' = UnrecognizedValue(type)
    /\ opc' = "raised"
    /\ UNCHANGED <<bohbVars, cwdVars, trajVars, cmdVars, key, unvalidated_trajectories, y_best, y_max, dataframe, id, pc,
                   optimizer_df, tableVars, truncVars, aggVars, corrVars, reportVars,
                   hpoexp_settings, type, partial_options, options, called>>

\* line 125, the constructor of the type returns
Construct ==
    /\ opc = "check"
    /\ ~NotIn(type)
    /\ ~(type = Some("default") /\ ConstructDefaultRaises(hpoexp_settings))
    /\ called' = Append(called, IF type = Some("default") THEN "construct_default_options"
                                ELSE "construct_tabular_options")
    /\ partial_options' = Some(IF type = Some("default")
                               THEN ConstructDefaultOptions(hpoexp_settings)
                               ELSE ConstructTabularOptions(hpoexp_settings))
    /\ opc' = "load"
    /\ UNCHANGED <<bohbVars, cwdVars, trajVars, cmdVars, normVars, tableVars, truncVars, aggVars, corrVars, reportVars,
                   hpoexp_settings, type, options, message>>

\* line 125, construct_default_options multiplies with None at line 88
ConstructRaises ==
    /\ opc = "check"
    /\ type = Some("default")
    /\ ConstructDefaultRaises(hpoexp_settings)
    /\ called' = Append(called, "construct_default_options")
    /\ exc' = "TypeError"
    /\ opc' = "raised"
    /\ UNCHANGED <<bohbVars, cwdVars, trajVars, cmdVars, key, unvalidated_trajectories, y_best, y_max, dataframe, id, pc,
                   optimizer_df, tableVars, truncVars, aggVars, corrVars, reportVars,
                   hpoexp_settings, type, partial_options, options, message>>

\* lines 126-130: the options are completed and loaded
LoadOptions ==
    /\ opc = "load"
    /\ partial_options' = Some(WithMin(partial_options[1]))
    /\ options' = Some(WithMin(partial_options[1]))
    /\ called' = called \o <<"_get_command_line_args", "load_options",
                              "load_parameters", "load_config">>
    /\ opc' = "done"
    /\ UNCHANGED <<bohbVars, cwdVars, trajVars, cmdVars, normVars, tableVars, truncVars, aggVars, corrVars, reportVars,
                   hpoexp_settings, type, message>>

NextOptions ==
    \/ GetType
    \/ RaiseValueError
    \/ Construct
    \/ ConstructRaises
    \/ LoadOptions

SpecOptions == InitOptions /\ [][NextOptions]_vars

\* the accepted set is named in a message
NamesAcceptedSet(msg) ==
    {msg.accepted[j] : j \in 1..Len(msg.accepted)} = {"default", "tabular"}

\* C22: for every 'type' outside {default, tabular}, a missing key included,
\* load_dragonfly_options ends in an error whose message names the accepted
\* set, before any option constructor ran and before any options were loaded.
C22_UnknownTypeFailsFast ==
    (hpoexp_settings.type \notin {Some("default"), Some("tabular")} /\ opc \notin {"get", "check"})
        => /\ opc = "raised"
           /\ exc \in {"KeyError", "ValueError"}
           /\ NamesAcceptedSet(message)
           /\ called = <<>>
           /\ partial_options = None
           /\ options = None

\* a missing 'type' has been refused
C22_Witness ==
    /\ hpoexp_settings.type = None
    /\ opc = "raised"
    /\ message = UnrecognizedValue(None)

\* the fidelity levels of the records of the runs, headers left out, in order
RECURSIVE LevelsRead(_)
LevelsRead(runs) ==
    IF runs = <<>> THEN <<>>
    ELSE [j \in 1..(Len(Head(runs)) - 1) |-> FidelValueOf(Head(runs)[j + 1])]
         \o LevelsRead(Tail(runs))

\* a name begins with one of the family names
BeginsWithFamily(o) ==
    \E family \in {"smac", "dehb", "hpbands"} :
        /\ Len(Chars(family)) <= Len(Chars(o))
        /\ \A j \in 1..Len(Chars(family)) : Chars(o)[j] = Chars(family)[j]

\* a name holds one of the family names at some place
HoldsFamily(o) ==
    \E family \in {"smac", "dehb", "hpbands"} :
        \E k \in 0..(Len(Chars(o)) - Len(Chars(family))) :
            \A j \in 1..Len(Chars(family)) : Chars(o)[k + j] = Chars(family)[j]

\* the loop of lines 172-187 leaves the index as it is
NothingIndexed == conf_dc' = conf_dc /\ f_set' = f_set

\* every record of the run histories loaded, except the header of each, went
\* into the index and the list of levels
AllButHeadersIndexed ==
    /\ f_set' = f_set \o LevelsRead(rhs')
    /\ \A i \in 1..Len(rhs') : \A j \in 2..Len(rhs'[i]) :
          \E n \in 1..Len(conf_dc') :
              /\ SamePairs(conf_dc'[n].c, rhs'[i][j].configuration)
              /\ FidelValueOf(rhs'[i][j]) \in DOMAIN conf_dc'[n].values
              /\ conf_dc'[n].values[FidelValueOf(rhs'[i][j])] = rhs'[i][j].function_value

\* C23 as stated: an optimizer whose name begins with none of smac, dehb,
\* hpbands contributes no record to the index; of an optimizer that matches,
\* every record except the header at index 0 of each run is indexed.
C23_FamilyPrefixOnly ==
    [][(cpc = "opts" /\ opt_i' = opt_i + 1) =>
          IF ~BeginsWithFamily(opt_rh_dc[opt_i + 1].opt) THEN NothingIndexed
          ELSE IF opt_rh_dc[opt_i + 1].files = 0 THEN NothingIndexed
          ELSE Len(rhs') = opt_rh_dc[opt_i + 1].files /\ AllButHeadersIndexed]_vars

\* C23 (amended): an optimizer whose name holds none of smac, dehb, hpbands at
\* any place contributes no record to the index; of an optimizer whose name
\* holds one of them, at its start or later, every record except the header at
\* index 0 of each run is indexed.
C23_FamilyNameOnly ==
    [][(cpc = "opts" /\ opt_i' = opt_i + 1) =>
          IF ~HoldsFamily(opt_rh_dc[opt_i + 1].opt) THEN NothingIndexed
          ELSE IF opt_rh_dc[opt_i + 1].files = 0 THEN NothingIndexed
          ELSE Len(rhs') = opt_rh_dc[opt_i + 1].files /\ AllButHeadersIndexed]_vars

\* randomsearch had a run history file and was passed by, and the records of an
\* optimizer with a family name inside its name were indexed after it
C23_Witness ==
    /\ opt_i = 2
    /\ opt_rh_dc[1] = [opt |-> "randomsearch", files |-> 1]
    /\ opt_rh_dc[2] = [opt |-> "autosmac", files |-> 1]
    /\ RecordsRead # {}
    /\ f_set = LevelsRead(rhs)
    /\ Len(conf_dc) >= 1

\* ------------------------------------------------------------ more claims on SpecTable
\* C24: in the table pipeline the normalizer of the regret division is never
\* zero, and it is 1 for a benchmark that configures no y_max, so that
\* function_values are raw_value - y_best there.
C24_NormalizerNeverZero ==
    tpc \notin {"idle", "load"} =>
        /\ Normalizer(y_best, y_max) # 0
        /\ exc # "ZeroDivisionError"
        /\ benchmark_spec.y_max = None => Normalizer(y_best, y_max) = 1

\* ------------------------------------------------------------ more claims on SpecAgg
\* the call was made without opt_list: the parameter is None, or holds the
\* optimizers of a benchmark directory, which are listed in another order than
\* the list __main__ passes
CalledWithoutOptList == opt_list # Some(OptList)

\* C29: called without an opt_list, the table function aggregates each
\* benchmark over all optimizers present on disk for that benchmark, whatever
\* optimizers were present for the benchmarks processed before it: at the head
\* of every benchmark the optimizers to loop over are the ones found on disk.
C29_EachBenchmarkOverItsOptimizers ==
    [][(CalledWithoutOptList /\ tpc = "benchmarks" /\ tpc' = "optimizers")
          => opts' = keys']_vars

\* lines 284-287: what the name output_file is bound to after the `if`; the
\* branch of thresh < 1 binds the name ouptut_file instead and leaves
\* output_file unbound.  A path is given by the part that tells the tables apart.
OutputFile(th) ==
    IF Less(th, Num(1)) THEN None ELSE Some("args.table_type")

\* C30: for every thresh the table function reaches write_latex with a
\* well-defined output file, after the rank table was pickled: a call that got
\* past the averaging ends with the table written, under a name that carries
\* int(thresh*100) for thresh < 1 and the table type for thresh = 1.
C30_LatexWritten ==
    (~expand /\ function_values_median # <<>> /\ tpc # "ranks") =>
        /\ tpc = "written"
        /\ rank_df # <<>>
        /\ OutputFile(thresh) # None

\* ------------------------------------------------------------ create_cmd.py
\* the largest number of commands write_cmd puts into one file
ChunkSize == 10000

\* full chunks in the command lists of one call of main
MaxChunks == 2

\* the files of main, in the order of the loop of line 187
OutFls == <<"run_fl", "eval_fl", "evalu_fl", "val_fl">>

\* a command is given by its place in its list
Commands(n) == [j \in 1..n |-> j]

RECURSIVE Total(_)
\* the commands in a sequence of lists
Total(lists) == IF lists = <<>> THEN 0 ELSE Len(Head(lists)) + Total(Tail(lists))

\* lengths of a command list around the multiples of the chunk size, at most n
CmdLengths(n) ==
    {l \in {k * ChunkSize + r : k \in 0..MaxChunks, r \in {0, 1, ChunkSize - 1}} : l <= n}

\* cmd_list[:10000]
FirstChunk(cmds) == SubSeq(cmds, 1, IF Len(cmds) < ChunkSize THEN Len(cmds) ELSE ChunkSize)

\* cmd_list[10000:]
AfterChunk(cmds) == SubSeq(cmds, ChunkSize + 1, Len(cmds))

\* ------------------------------------------------------------ SpecCmd
\* the loop of main over [run_cmd, run_fl], [eval_cmd, eval_fl],
\* [evalu_cmd, evalu_fl], [val_cmd, val_fl] and the calls of write_cmd.  A list
\* is drawn when the loop reaches it; the four lists hold at most
\* MaxChunks * ChunkSize + 1 commands together.  A file name is the name of main
\* followed by the numbers appended with "_%d"; a file is the sequence of its
\* lines.
InitCmd ==
    /\ key = ""
    /\ unvalidated_trajectories = <<>>
    /\ y_best = 0
    /\ y_max = None
    /\ dataframe = EmptyColumns
    /\ id = 0
    /\ pc = "idle"
    /\ exc = ""
    /\ optimizer_df = <<>>
    /\ TableIdle
    /\ TruncIdle
    /\ AggIdle
    /\ CorrIdle
    /\ ReportIdle
    /\ OptionIdle
    /\ TrajIdle
    /\ CwdIdle
    /\ BohbIdle
    /\ cmd_pair = 0
    /\ cmd_c = <<>>
    /\ cmd_list = <<>>
    /\ out_fl = <<>>
    /\ ct = 0
    /\ fhs = <<>>
    /\ wpc = "main"

\* lines 187-189 for a list without commands: write_cmd is not called
SkipEmptyList ==
    /\ wpc = "main"
    /\ cmd_pair < Len(OutFls)
    /\ cmd_pair' = cmd_pair + 1
    /\ cmd_c' = Append(cmd_c, <<>>)
    /\ UNCHANGED <<bohbVars, cwdVars, trajVars, normVars, tableVars, truncVars, aggVars, corrVars, reportVars,
                   optionVars, cmd_list, out_fl, ct, fhs, wpc>>

\* lines 187-190: write_cmd(c, f) is called
CallWriteCmd ==
    /\ wpc = "main"
    /\ cmd_pair < Len(OutFls)
    /\ \E n \in CmdLengths(MaxChunks * ChunkSize + 1 - Total(cmd_c)) \ {0} :
          /\ cmd_c' = Append(cmd_c, Commands(n))
          /\ cmd_list' = Commands(n)
    /\ out_fl' = <<OutFls[cmd_pair + 1]>>
    /\ cmd_pair' = cmd_pair + 1
    /\ wpc' = "call"
    /\ UNCHANGED <<bohbVars, cwdVars, trajVars, normVars, tableVars, truncVars, aggVars, corrVars, reportVars,
                   optionVars, ct, fhs>>

\* lines 194-195
StartChunks ==
    /\ wpc = "call"
    /\ Len(cmd_list) > ChunkSize
    /\ ct' = 0
    /\ wpc' = "while"
    /\ UNCHANGED <<bohbVars, cwdVars, trajVars, normVars, tableVars, truncVars, aggVars, corrVars, reportVars,
                   optionVars, cmd_pair, cmd_c, cmd_list, out_fl, fhs>>

\* lines 196-199: the inner call gets at most 10000 commands and writes them
\* at lines 201-202
WriteChunk ==
    /\ wpc = "while"
    /\ Len(cmd_list) > ChunkSize
    /\ fhs' = Append(fhs, [name |-> Append(out_fl, ct), lines |-> FirstChunk(cmd_list)])
    /\ ct' = ct + 1
    /\ cmd_list' = AfterChunk(cmd_list)
    /\ UNCHANGED <<bohbVars, cwdVars, trajVars, normVars, tableVars, truncVars, aggVars, corrVars, reportVars,
                   optionVars, cmd_pair, cmd_c, out_fl, wpc>>

\* line 196 when at most 10000 commands are left: the loop ends and write_cmd
\* returns
ReturnAfterChunks ==
    /\ wpc = "while"
    /\ Len(cmd_list) <= ChunkSize
    /\ wpc' = "main"
    /\ UNCHANGED <<bohbVars, cwdVars, trajVars, normVars, tableVars, truncVars, aggVars, corrVars, reportVars,
                   optionVars, cmd_pair, cmd_c, cmd_list, out_fl, ct, fhs>>

\* lines 200-202: a list of at most 10000 commands goes into out_fl
WriteAll ==
    /\ wpc = "call"
    /\ Len(cmd_list) <= ChunkSize
    /\ fhs' = Append(fhs, [name |-> out_fl, lines |-> cmd_list])
    /\ wpc' = "main"
    /\ UNCHANGED <<bohbVars, cwdVars, trajVars, normVars, tableVars, truncVars, aggVars, corrVars, reportVars,
                   optionVars, cmd_pair, cmd_c, cmd_list, out_fl, ct>>

NextCmd ==
    \/ SkipEmptyList
    \/ CallWriteCmd
    \/ StartChunks
    \/ WriteChunk
    \/ ReturnAfterChunks
    \/ WriteAll

SpecCmd == InitCmd /\ [][NextCmd]_vars

RECURSIVE LinesOf(_, _)
\* the lines of the files written for the list of main's file f, in the order
\* in which the files were written
LinesOf(files, f) ==
    IF files = <<>> THEN <<>>
    ELSE (IF Head(Head(files).name) = f THEN Head(files).lines ELSE <<>>)
         \o LinesOf(Tail(files), f)

\* C25: write_cmd loses no command: when a call has returned, the files written
\* for its list hold every command of the list once and in the original order,
\* and no file holds more than 10000 commands.
C25_NoCommandLost ==
    wpc = "main" =>
        /\ \A j \in 1..cmd_pair : LinesOf(fhs, OutFls[j]) = cmd_c[j]
        /\ \A j \in 1..Len(fhs) : Len(fhs[j].lines) <= ChunkSize

\* ------------------------------------------------------------ generate_trajectory
\* queries in the history of one dragonfly run
MaxQueries == 3

\* -x of a float
Neg(x) == <<-x[1], x[2]>>

\* qinfo.val, the value dragonfly maximised: the negated objective value; an
\* evaluation that returned inf has val = -inf
QueryVals == {Num(-2), Num(-1), Neg(Inf)}

\* history.query_qinfos: the queries in the order of their steps
QueryQinfos ==
    {[j \in 1..Len(vals) |-> [val |-> vals[j], receive_time |-> j, step_idx |-> j - 1,
                              point |-> <<j>>]] :
        vals \in SeqsUpTo(QueryVals, MaxQueries)}

\* the incumbent before the first query, lines 352-359
NoIncumbent ==
    [cpu_time |-> 0, wallclock_time |-> 0, evaluations |-> 0, cost |-> Inf,
     incumbent |-> None, origin |-> "xxx"]

\* the entry of a query, lines 370-377 and 385-392, for a Euclidean space and
\* a qinfo without curr_acq
EntryOf(qinfo) ==
    [cpu_time |-> qinfo.receive_time, wallclock_time |-> qinfo.receive_time,
     evaluations |-> qinfo.step_idx, cost |-> Neg(qinfo.val),
     incumbent |-> Some(qinfo.point), origin |-> "xxx"]

\* mutant: a query that ties with the incumbent replaces it
ImprovesOrTies(qinfo, inc) == ~Less(inc.cost, Neg(qinfo.val))

\* -qinfo.val < incumbent["cost"]
Improves(qinfo, inc) == Less(Neg(qinfo.val), inc.cost)

\* ------------------------------------------------------------ SpecTraj
\* generate_trajectory(history, save_file, is_cp=False, history_file), one
\* iteration of the loop over the queries per step
InitTraj ==
    /\ key = ""
    /\ unvalidated_trajectories = <<>>
    /\ y_best = 0
    /\ y_max = None
    /\ dataframe = EmptyColumns
    /\ id = 0
    /\ pc = "idle"
    /\ exc = ""
    /\ optimizer_df = <<>>
    /\ TableIdle
    /\ TruncIdle
    /\ AggIdle
    /\ CorrIdle
    /\ ReportIdle
    /\ OptionIdle
    /\ CmdIdle
    /\ CwdIdle
    /\ BohbIdle
    /\ query_qinfos \in QueryQinfos
    /\ q_i = 0
    /\ incumbent = NoIncumbent
    /\ update = FALSE
    /\ gen_trajectories = <<>>
    /\ save_history \in BOOLEAN
    /\ recorded_history = <<>>
    /\ saved = <<>>
    /\ gpc = "loop"

\* lines 362-392 for one query
HandleQuery ==
    /\ gpc = "loop"
    /\ q_i < Len(query_qinfos)
    /\ LET qinfo == query_qinfos[q_i + 1]
           improved == Improves(qinfo, incumbent)
           inc == IF improved THEN EntryOf(qinfo) ELSE incumbent
       IN  /\ incumbent' = inc
           /\ gen_trajectories' = IF gen_trajectories = <<>> \/ improved
                                  THEN Append(gen_trajectories, inc)
                                  ELSE gen_trajectories
           /\ recorded_history' = IF save_history
                                  THEN Append(recorded_history, EntryOf(qinfo))
                                  ELSE recorded_history
    /\ update' = FALSE
    /\ q_i' = q_i + 1
    /\ UNCHANGED <<bohbVars, cwdVars, normVars, tableVars, truncVars, aggVars, corrVars, reportVars,
                   optionVars, cmdVars, query_qinfos, save_history, saved, gpc>>

\* lines 393-402: the trajectory goes into save_file, one entry after the
\* other, and the history into history_file
WriteTrajectory ==
    /\ gpc = "loop"
    /\ q_i = Len(query_qinfos)
    /\ saved' = <<[file |-> "save_file", entries |-> gen_trajectories]>>
                \o (IF save_history
                    THEN <<[file |-> "history_file", entries |-> recorded_history]>>
                    ELSE <<>>)
    /\ gpc' = "done"
    /\ UNCHANGED <<bohbVars, cwdVars, normVars, tableVars, truncVars, aggVars, corrVars, reportVars,
                   optionVars, cmdVars, query_qinfos, q_i, incumbent, update,
                   gen_trajectories, save_history, recorded_history>>

NextTraj ==
    \/ HandleQuery
    \/ WriteTrajectory

SpecTraj == InitTraj /\ [][NextTraj]_vars

\* the cost of the query at place k of the history
CostOf(k) == <<-query_qinfos[k].val[1], query_qinfos[k].val[2]>>

\* the queries handled so far that are the first one or lie strictly below
\* every query before them
NewLows == {k \in 1..q_i : \A m \in 1..(k - 1) : Less(CostOf(k), CostOf(m))}

\* C26: over any sequence of queries the trajectory is non-empty once a query
\* was handled, the costs of successive entries are strictly decreasing, the
\* cost of the last entry is the minimum of -qinfo.val over the queries handled,
\* only the first query and queries that strictly improve on the incumbent
\* append an entry, and the exported file holds these entries.
C26_TrajectoryOfStrictImprovements ==
    /\ q_i >= 1 => gen_trajectories # <<>>
    /\ \A j \in 1..(Len(gen_trajectories) - 1) :
          Less(gen_trajectories[j + 1].cost, gen_trajectories[j].cost)
    /\ q_i >= 1 =>
          /\ \E k \in 1..q_i : CostOf(k) = gen_trajectories[Len(gen_trajectories)].cost
          /\ \A k \in 1..q_i :
                ~Less(CostOf(k), gen_trajectories[Len(gen_trajectories)].cost)
    /\ Len(gen_trajectories) = Cardinality(NewLows)
    /\ gpc = "done" => saved[1].entries = gen_trajectories

\* three queries were exported: the second did not improve on the first, the
\* third did
C26_Witness ==
    /\ gpc = "done"
    /\ Len(query_qinfos) = 3
    /\ ~Less(CostOf(2), CostOf(1))
    /\ Less(CostOf(3), CostOf(1))
    /\ Len(saved[1].entries) = 2

\* ------------------------------------------------------------ change_cwd
\* the largest argument of change_cwd; the default is 5
MaxTries == 5

\* what tmp_dir.mkdir(parents=True, exist_ok=False) does at line 412
MkdirOutcomes == {"created", "FileExistsError", "PermissionError"}

\* mutant: the recursive call passes tries on
SameTries(t) == t

\* tries - 1 of lines 414 and 417
FewerTries(t) == t - 1

\* ------------------------------------------------------------ SpecCwd
\* change_cwd(tries): frames holds the argument of every call that has not
\* returned, the innermost last; every call of mkdir draws a fresh uuid4, so
\* a directory is given by the number of the attempt that named it.
InitCwd ==
    /\ key = ""
    /\ unvalidated_trajectories = <<>>
    /\ y_best = 0
    /\ y_max = None
    /\ dataframe = EmptyColumns
    /\ id = 0
    /\ pc = "idle"
    /\ exc = ""
    /\ optimizer_df = <<>>
    /\ TableIdle
    /\ TruncIdle
    /\ AggIdle
    /\ CorrIdle
    /\ ReportIdle
    /\ OptionIdle
    /\ CmdIdle
    /\ TrajIdle
    /\ BohbIdle
    /\ tries \in 0..MaxTries
    /\ frames = <<tries>>
    /\ attempts = <<>>
    /\ chdirs = <<>>
    /\ xpc = "call"

\* lines 406-407: nothing catches the error, it ends every frame
RaiseRuntimeError ==
    /\ xpc = "call"
    /\ frames[Len(frames)] <= 0
    /\ exc' = "RuntimeError"
    /\ frames' = <<>>
    /\ xpc' = "raised"
    /\ UNCHANGED <<bohbVars, key, unvalidated_trajectories, y_best, y_max, dataframe, id, pc,
                   optimizer_df, tableVars, truncVars, aggVars, corrVars, reportVars,
                   optionVars, cmdVars, trajVars, tries, attempts, chdirs>>

\* lines 409-412 and 418-420: the directory was created
MkdirCreates ==
    /\ xpc = "call"
    /\ frames[Len(frames)] > 0
    /\ attempts' = Append(attempts, "created")
    /\ chdirs' = Append(chdirs, Len(attempts) + 1)
    /\ xpc' = "return"
    /\ UNCHANGED <<bohbVars, normVars, tableVars, truncVars, aggVars, corrVars, reportVars,
                   optionVars, cmdVars, trajVars, tries, frames>>

\* lines 409-417: mkdir raises and the handler calls change_cwd again
MkdirRaises ==
    /\ xpc = "call"
    /\ frames[Len(frames)] > 0
    /\ \E error \in MkdirOutcomes \ {"created"} : attempts' = Append(attempts, error)
    /\ frames' = Append(frames, FewerTries(frames[Len(frames)]))
    /\ UNCHANGED <<bohbVars, normVars, tableVars, truncVars, aggVars, corrVars, reportVars,
                   optionVars, cmdVars, trajVars, tries, chdirs, xpc>>

\* line 421: the innermost call returns
Return ==
    /\ xpc = "return"
    /\ frames # <<>>
    /\ frames' = SubSeq(frames, 1, Len(frames) - 1)
    /\ xpc' = IF Len(frames) = 1 THEN "returned" ELSE "return"
    /\ UNCHANGED <<bohbVars, normVars, tableVars, truncVars, aggVars, corrVars, reportVars,
                   optionVars, cmdVars, trajVars, tries, attempts, chdirs>>

NextCwd ==
    \/ RaiseRuntimeError
    \/ MkdirCreates
    \/ MkdirRaises
    \/ Return

SpecCwd == InitCwd /\ [][NextCwd]_vars

\* the interpreter goes on running a call that can take a step
SpecCwdFair == SpecCwd /\ WF_vars(NextCwd)

\* the attempts that failed
Failed == {j \in 1..Len(attempts) : attempts[j] # "created"}

\* C27: change_cwd(tries = n) ends after at most n attempts to create a
\* directory; it changes the working directory exactly once if an attempt
\* succeeds, and if all n attempts fail with FileExistsError or PermissionError
\* it raises RuntimeError and the working directory is unchanged.
C27_EndsWithinTries ==
    /\ <>(xpc \in {"returned", "raised"})
    /\ [](/\ Len(attempts) <= tries
          /\ Len(chdirs) = Cardinality({j \in 1..Len(attempts) : attempts[j] = "created"})
          /\ Len(chdirs) <= 1
          /\ xpc = "returned" => Len(chdirs) = 1
          /\ Cardinality(Failed) = tries =>
                <>(xpc = "raised" /\ exc = "RuntimeError" /\ chdirs = <<>>)
          /\ xpc = "raised" => Cardinality(Failed) = tries)

\* two attempts failed, one with each error, the third one succeeded and every
\* call has returned
C27_Witness ==
    /\ xpc = "returned"
    /\ attempts = <<"FileExistsError", "PermissionError", "created">>
    /\ chdirs = <<3>>

\* ------------------------------------------------------------ BOHBOptimizer.run
\* the largest optimizer_settings['num_iterations']
MaxIterations == 3

\* the data of one iteration of the master: the loss it found
IterationData == {1, 2}

\* optimizer_settings, as far as run reads it
OptimizerSettings ==
    [output_dir : {"out_a", "out_b"}, num_iterations : 1..MaxIterations]

\* master.warmstart_iteration: the master of lines 53-61 is built without a
\* previous result
WarmstartIteration == <<>>

\* mutant: the handler leaves no result
NoTimeoutResult(its, ws_data) == None

\* lines 70-72: the result of the handler of TimeoutException
TimeoutResult(its, ws_data) == Some(its \o ws_data)

\* ------------------------------------------------------------ SpecBohb
\* BOHBOptimizer.run: events is the order of the calls that start and stop
\* the name server, the worker and the master.  The wall-clock guard
\* time_limit is not in the sources read; it is taken to raise
\* TimeoutException at any moment while master.run is running.
InitBohb ==
    /\ key = ""
    /\ unvalidated_trajectories = <<>>
    /\ y_best = 0
    /\ y_max = None
    /\ dataframe = EmptyColumns
    /\ id = 0
    /\ pc = "idle"
    /\ exc = ""
    /\ optimizer_df = <<>>
    /\ TableIdle
    /\ TruncIdle
    /\ AggIdle
    /\ CorrIdle
    /\ ReportIdle
    /\ OptionIdle
    /\ CmdIdle
    /\ TrajIdle
    /\ CwdIdle
    /\ optimizer_settings \in OptimizerSettings
    /\ events = <<>>
    /\ iterations = <<>>
    /\ result = None
    /\ returned = None
    /\ bpc = "start"

\* lines 37-42
StartNameServer ==
    /\ bpc = "start"
    /\ events' = Append(events, "ns.start")
    /\ bpc' = "worker"
    /\ UNCHANGED <<normVars, tableVars, truncVars, aggVars, corrVars, reportVars,
                   optionVars, cmdVars, trajVars, cwdVars, optimizer_settings,
                   iterations, result, returned>>

\* lines 44-51
StartWorker ==
    /\ bpc = "worker"
    /\ events' = Append(events, "worker.run")
    /\ bpc' = "master"
    /\ UNCHANGED <<normVars, tableVars, truncVars, aggVars, corrVars, reportVars,
                   optionVars, cmdVars, trajVars, cwdVars, optimizer_settings,
                   iterations, result, returned>>

\* lines 53-66: the master is built and master.run is called under the guard
CallMasterRun ==
    /\ bpc = "master"
    /\ events' = Append(events, "master.run")
    /\ bpc' = "running"
    /\ UNCHANGED <<normVars, tableVars, truncVars, aggVars, corrVars, reportVars,
                   optionVars, cmdVars, trajVars, cwdVars, optimizer_settings,
                   iterations, result, returned>>

\* line 66: master.run finishes one more iteration
RunIteration ==
    /\ bpc = "running"
    /\ Len(iterations) < optimizer_settings.num_iterations
    /\ \E data \in IterationData : iterations' = Append(iterations, data)
    /\ UNCHANGED <<normVars, tableVars, truncVars, aggVars, corrVars, reportVars,
                   optionVars, cmdVars, trajVars, cwdVars, optimizer_settings,
                   events, result, returned, bpc>>

\* line 66: master.run returns within the limit, its result or None (the
\* test of line 78)
MasterRunReturns ==
    /\ bpc = "running"
    /\ Len(iterations) = optimizer_settings.num_iterations
    /\ result' \in {None, Some(iterations)}
    /\ events' = Append(events, "completed")
    /\ bpc' = "shutdown_master"
    /\ UNCHANGED <<normVars, tableVars, truncVars, aggVars, corrVars, reportVars,
                   optionVars, cmdVars, trajVars, cwdVars, optimizer_settings,
                   iterations, returned>>

\* lines 67-73: the guard raises TimeoutException and the handler builds the
\* result
HandleTimeout ==
    /\ bpc = "running"
    /\ result' = TimeoutResult(iterations, WarmstartIteration)
    /\ events' = Append(events, "TimeoutException")
    /\ bpc' = "shutdown_master"
    /\ UNCHANGED <<normVars, tableVars, truncVars, aggVars, corrVars, reportVars,
                   optionVars, cmdVars, trajVars, cwdVars, optimizer_settings,
                   iterations, returned>>

\* lines 64-67: any other error of master.run is not handled and ends run
MasterRunRaises ==
    /\ bpc = "running"
    /\ exc' = "Exception"
    /\ bpc' = "raised"
    /\ UNCHANGED <<key, unvalidated_trajectories, y_best, y_max, dataframe, id, pc,
                   optimizer_df, tableVars, truncVars, aggVars, corrVars, reportVars,
                   optionVars, cmdVars, trajVars, cwdVars, optimizer_settings, events,
                   iterations, result, returned>>

\* line 75
ShutdownMaster ==
    /\ bpc = "shutdown_master"
    /\ events' = Append(events, "master.shutdown")
    /\ bpc' = "shutdown_ns"
    /\ UNCHANGED <<normVars, tableVars, truncVars, aggVars, corrVars, reportVars,
                   optionVars, cmdVars, trajVars, cwdVars, optimizer_settings,
                   iterations, result, returned>>

\* line 76
ShutdownNameServer ==
    /\ bpc = "shutdown_ns"
    /\ events' = Append(events, "ns.shutdown")
    /\ bpc' = "incumbent"
    /\ UNCHANGED <<normVars, tableVars, truncVars, aggVars, corrVars, reportVars,
                   optionVars, cmdVars, trajVars, cwdVars, optimizer_settings,
                   iterations, result, returned>>

\* lines 78-84: the incumbent is looked up in the result and logged; nothing
\* is done for a result of None
LogIncumbent ==
    /\ bpc = "incumbent"
    /\ bpc' = "return"
    /\ UNCHANGED <<normVars, tableVars, truncVars, aggVars, corrVars, reportVars,
                   optionVars, cmdVars, trajVars, cwdVars, optimizer_settings, events,
                   iterations, result, returned>>

\* lines 79-81: result.get_incumbent_id() is None when no run of the result
\* counts as the incumbent, and the look-up of its runs raises
LogIncumbentRaises ==
    /\ bpc = "incumbent"
    /\ result # None
    /\ exc' = "KeyError"
    /\ bpc' = "raised"
    /\ UNCHANGED <<key, unvalidated_trajectories, y_best, y_max, dataframe, id, pc,
                   optimizer_df, tableVars, truncVars, aggVars, corrVars, reportVars,
                   optionVars, cmdVars, trajVars, cwdVars, optimizer_settings, events,
                   iterations, result, returned>>

\* line 87
ReturnOutputDir ==
    /\ bpc = "return"
    /\ returned' = Some(optimizer_settings.output_dir)
    /\ bpc' = "returned"
    /\ UNCHANGED <<normVars, tableVars, truncVars, aggVars, corrVars, reportVars,
                   optionVars, cmdVars, trajVars, cwdVars, optimizer_settings, events,
                   iterations, result>>

NextBohb ==
    \/ StartNameServer
    \/ StartWorker
    \/ CallMasterRun
    \/ RunIteration
    \/ MasterRunReturns
    \/ HandleTimeout
    \/ MasterRunRaises
    \/ ShutdownMaster
    \/ ShutdownNameServer
    \/ LogIncumbent
    \/ LogIncumbentRaises
    \/ ReturnOutputDir

SpecBohb == InitBohb /\ [][NextBohb]_vars

\* the places of a call in events
Places(call) == {j \in 1..Len(events) : events[j] = call}

\* the first call is made exactly once and before the second, made exactly once
OnceAndBefore(first, second) ==
    /\ Cardinality(Places(first)) = 1
    /\ Cardinality(Places(second)) = 1
    /\ \A j \in Places(first) : \A k \in Places(second) : j < k

\* master.run has ended in one of the two ways run provides for
RunEnded == Places("completed") \cup Places("TimeoutException") # {}

\* C28: whether master.run completes within the limit or the guard raises
\* TimeoutException, the master and then the name server are shut down exactly
\* once each, after the name server and the worker were started and before
\* run returns the output directory; after a timeout the result is built from
\* the iterations made so far.
C28_ShutdownOnBothPaths ==
    /\ Cardinality(Places("master.shutdown")) <= 1
    /\ Cardinality(Places("ns.shutdown")) <= 1
    /\ Places("master.shutdown") # {} =>
          /\ RunEnded
          /\ OnceAndBefore("ns.start", "worker.run")
          /\ OnceAndBefore("worker.run", "master.shutdown")
    /\ (RunEnded /\ bpc \notin {"shutdown_master", "shutdown_ns"}) =>
          OnceAndBefore("master.shutdown", "ns.shutdown")
    /\ Places("TimeoutException") # {} => result = Some(iterations)
    /\ returned # None =>
          /\ RunEnded
          /\ returned = Some(optimizer_settings.output_dir)
          /\ Places("ns.shutdown") # {}
    /\ (RunEnded /\ returned = None) => bpc # "returned"

\* the guard fired after one of two iterations; both were shut down and run
\* has returned the output directory
C28_Witness ==
    /\ bpc = "returned"
    /\ Places("TimeoutException") # {}
    /\ optimizer_settings.num_iterations = 2
    /\ result = Some(<<1>>)
    /\ Places("master.shutdown") # {}
    /\ Places("ns.shutdown") # {}

====
